---- MODULE Spec2Model ----
(***************************************************************************)
(* A model of logfire's configuration core (logfire/_internal/config.py):  *)
(* the configure()/_initialize() lifecycle of a LogfireConfig, the         *)
(* background token check, the credentials file, and the interactive       *)
(* project creation loop.                                                  *)
(*                                                                         *)
(* Three specifications share the module:                                  *)
(*   Spec         the configure()/_initialize() lifecycle                  *)
(*   SpecCreds    LogfireCredentials.load_creds_file over file contents    *)
(*   SpecProject  LogfireCredentials.create_new_project                    *)
(***************************************************************************)
EXTENDS Integers, Sequences, FiniteSets, TLC

\* ------------------------------------------------------------------------
\* Bounds of the model
\* ------------------------------------------------------------------------

\* configure()/initialize() calls made in one behaviour
MaxConfigures == 2

\* length of a line the user types at a prompt, and of a project_name argument
MaxLen == 2

\* POST /v1/projects/{org} requests made by one create_new_project call
MaxPosts == 2

\* projects in the list given to use_existing_project
MaxProjects == 3

\* ------------------------------------------------------------------------
\* Values
\* ------------------------------------------------------------------------

\* Python's None and JSON's null (json.load maps null to None)
None == "None"

\* marker of a key that a JSON object does not have
Absent == "<absent>"

\* ------------------------------------------------------------------------
\* The credentials file and LogfireCredentials.load_creds_file
\* ------------------------------------------------------------------------

\* the fields of the LogfireCredentials dataclass
CredsFields == {"token", "project_name", "project_url", "logfire_api_url"}

\* keys a file's JSON object may hold: the fields, the legacy key, and
\* "extra", which stands for any key the dataclass does not know
FileKeys == CredsFields \cup {"dashboard_url", "extra"}

\* values of a key in the model: two strings and null
FileValues == {"v1", "v2", None}

\* a JSON object: every key is Absent or holds a value
EmptyObject == [k \in FileKeys |-> Absent]

\* what the path may hold:
\*   absent      path.exists() is False
\*   unreadable  open()/read() raises OSError
\*   badjson     json.load raises ValueError
\*   scalar      valid JSON that is a string, number, boolean or null
\*   list        valid JSON that is an array
\*   object      valid JSON that is an object
FileKinds == {"absent", "unreadable", "badjson", "scalar", "list", "object"}

NoFile == [kind |-> "absent", obj |-> EmptyObject]

OtherFile(kind) == [kind |-> kind, obj |-> EmptyObject]

ObjectFile(obj) == [kind |-> "object", obj |-> obj]

\* results of load_creds_file: None, a raised exception, or credentials
NoCreds == [k \in CredsFields |-> Absent]

ResultNone == [tag |-> "None", creds |-> NoCreds]

Raised(exc) == [tag |-> exc, creds |-> NoCreds]

Loaded(creds) == [tag |-> "creds", creds |-> creds]

\* data.pop('dashboard_url', None)
PopDashboardUrl(obj) ==
    [value |-> IF obj["dashboard_url"] = Absent THEN None ELSE obj["dashboard_url"],
     data  |-> [obj EXCEPT !["dashboard_url"] = Absent]]

\* data.setdefault('project_url', dashboard_url)
SetDefaultProjectUrl(data, dashboard_url) ==
    IF data["project_url"] = Absent
    THEN [data EXCEPT !["project_url"] = dashboard_url]
    ELSE data

\* mutant: the legacy key, when present, overrides project_url
HandleLegacyKeyOverriding(obj) ==
    LET popped == PopDashboardUrl(obj)
    IN  IF popped.value # None
        THEN [popped.data EXCEPT !["project_url"] = popped.value]
        ELSE popped.data

\* the legacy key handling of load_creds_file
HandleLegacyKey(obj) ==
    LET popped == PopDashboardUrl(obj)
    IN  IF popped.value # None
        THEN SetDefaultProjectUrl(popped.data, popped.value)
        ELSE popped.data

\* cls(**data): TypeError on a missing or an unexpected keyword
Construct(data) ==
    IF \/ \E k \in CredsFields : data[k] = Absent
       \/ \E k \in FileKeys \ CredsFields : data[k] # Absent
    THEN Raised("TypeError")
    ELSE Loaded([k \in CredsFields |-> data[k]])

\* the body of load_creds_file with its two try blocks removed: the result,
\* or the exception the statement raises
load_creds_file_body(file) ==
    CASE file.kind = "absent"     -> ResultNone
      [] file.kind = "unreadable" -> Raised("OSError")
      [] file.kind = "badjson"    -> Raised("ValueError")
      [] file.kind = "scalar"     -> Raised("AttributeError")
      [] file.kind = "list"       -> Raised("TypeError")
      [] file.kind = "object"     -> Construct(HandleLegacyKey(file.obj))

\* except (ValueError, OSError) around the read, except TypeError around the
\* construction; any other exception propagates as it is
load_creds_file(file) ==
    LET r == load_creds_file_body(file)
    IN  IF r.tag \in {"ValueError", "OSError", "TypeError"}
        THEN Raised("LogfireConfigError")
        ELSE r

\* mutant: the project URL is written under the legacy key
write_creds_file_legacy(creds) ==
    ObjectFile([k \in FileKeys |->
                  IF k = "dashboard_url" THEN creds["project_url"]
                  ELSE IF k \in CredsFields \ {"project_url"} THEN creds[k]
                  ELSE Absent])

\* dataclasses.asdict + json.dumps, as the file then reads back
write_creds_file(creds) ==
    ObjectFile([k \in FileKeys |-> IF k \in CredsFields THEN creds[k] ELSE Absent])

\* ------------------------------------------------------------------------
\* State of the configure()/_initialize() lifecycle
\* ------------------------------------------------------------------------

\* the LogfireConfig objects: GLOBAL_CONFIG and one other instance
Configs == {"GLOBAL_CONFIG", "other"}

\* the threads that call configure()/initialize()
Callers == {"main"}

NoOwner == "nobody"

\* every run of _initialize that gets to build providers is a generation;
\* generation g builds tracer provider g and meter provider g, and 0 is the
\* no-op provider a LogfireConfig starts with
Gens == 1..MaxConfigures

NoOpProvider == 0

\* send_to_logfire: bool | Literal['if-token-present']
SendValues == {"True", "False", "if-token-present"}

\* the project token passed to configure() (or found in the environment)
ArgTokens == {"token-arg"}

VARIABLES
    pc,                 \* [Callers]: where the caller is inside configure()
    cfgOf,              \* [Callers]: the config the caller works on
    genOf,              \* [Callers]: the generation of the running _initialize
    lastError,          \* [Callers]: exception the last call raised, or None
    calls,              \* configure()/initialize() calls made so far
    lock,               \* [Configs]: owner of self._lock
    send_to_logfire,    \* [Configs]: self.send_to_logfire
    token,              \* [Configs]: self.token
    initialized,        \* [Configs]: self._initialized
    has_set_providers,  \* [Configs]: self._has_set_providers
    tracer_provider,    \* [Configs]: provider held by self._tracer_provider
    meter_provider,     \* [Configs]: provider held by self._meter_provider
    tp,                 \* [Gens]: state of SDK tracer provider g
    mp,                 \* [Gens]: state of SDK meter provider g
    info,               \* [Gens]: what generation g did
    nextGen,            \* generations used so far
    thread,             \* [Gens]: the check_logfire_token thread g started
    warnings,           \* the warnings issued so far (warnings.warn)
    otlpEnv,            \* what the OTEL_EXPORTER_OTLP_* variables ask for
    credsFile,          \* content of <data_dir>/logfire_credentials.json
    globalSets,         \* calls of trace.set_tracer_provider so far
    globalProvider,     \* config whose proxies are the OTEL globals, or None
    successes,          \* [Configs]: runs of _initialize that got to the end
    fc_file,            \* SpecCreds: the file given to load_creds_file
    fc_result,          \* SpecCreds: what load_creds_file(fc_file) gave
    cp_pc,              \* SpecProject: where create_new_project is
    project_name,       \* SpecProject: the variable project_name
    project_name_default,       \* SpecProject: the variable of that name
    project_name_prompt,        \* SpecProject: the variable of that name
    force_project_name_prompt,  \* SpecProject: the argument of that name
    cp_cwd,             \* SpecProject: os.path.basename(os.getcwd())
    cp_posts,           \* SpecProject: POST requests sent so far
    cp_posted,          \* SpecProject: project_name of the last POST body
    cp_error,           \* SpecProject: what create_new_project raised
    up_pc,              \* SpecUse: where use_existing_project is
    up_args,            \* SpecUse: the organization and project_name given
    projects,           \* SpecUse: the argument projects
    organization,       \* SpecUse: the variable organization
    up_project_name,    \* SpecUse: the variable project_name
    filtered_projects,  \* SpecUse: the variable of that name
    up_asked,           \* SpecUse: the prompts shown so far
    project_choices,    \* SpecUse: the projects offered by number
    up_request,         \* SpecUse: the project a write token was requested for
    up_result           \* SpecUse: what use_existing_project gave

callVars == <<pc, cfgOf, genOf, lastError, calls, lock>>

cfgVars == <<send_to_logfire, token, initialized, has_set_providers,
             tracer_provider, meter_provider>>

resVars == <<tp, mp, info, nextGen>>

envVars == <<credsFile, globalSets, globalProvider, successes, otlpEnv>>

thrVars == <<thread, warnings>>

mainVars == <<callVars, cfgVars, resVars, thrVars, envVars>>

credVars == <<fc_file, fc_result>>

projVars == <<cp_pc, project_name, project_name_default, project_name_prompt,
              force_project_name_prompt, cp_cwd, cp_posts, cp_posted, cp_error>>

useVars == <<up_pc, up_args, projects, organization, up_project_name,
             filtered_projects, up_asked, project_choices, up_request, up_result>>

\* ---- the span pipeline built by _initialize (config.py 617-743) ----
VARIABLES
    pl_pc,              \* "idle", "configured": whether _initialize built the pipeline
    pl_settings,        \* the LogfireConfig fields the pipeline is built from
    pl_processors,      \* the span processors of the SDK tracer provider, in order
    pl_spans,           \* [span id -> the real span], for the spans started so far
    pl_clock,           \* the time generator: the last timestamp handed out
    pl_st               \* what the processors hold: the spans each underlying
                        \* processor received, the tail samplers' buffers, the
                        \* id generator, the pending spans emitted and tracked

pipeVars == <<pl_pc, pl_settings, pl_processors, pl_spans, pl_clock, pl_st>>

\* ---- LogfireConfig.force_flush (config.py 786-796) ----
VARIABLES
    ff_pc,              \* "idle", "meter", "tracer", "done": where the call is
    ff_timeout,         \* timeout_millis
    ff_meter,           \* how the meter provider's flush will go
    ff_tracer,          \* how the tracer provider's flush will go
    ff_meter_result,    \* what the meter provider's flush returned
    ff_result           \* what force_flush returned, or "raised"

flushVars == <<ff_pc, ff_timeout, ff_meter, ff_tracer, ff_meter_result, ff_result>>

\* ---- sanitize_project_name (config.py 1358-1362) ----
VARIABLES
    sn_name,            \* the name passed to sanitize_project_name
    sn_result           \* what it returned, or NotSanitized before the call

sanVars == <<sn_name, sn_result>>

\* ---- the remote export chain (config.py 699-709) ----
VARIABLES
    ex_pc,              \* "idle", "queued", "retrying", "returned", "done"
    ex_batch,           \* the batch the batch processor hands to the chain
    ex_fails,           \* the spans the network fails on
    ex_stack,           \* the (sub)batches the retry exporter has yet to try
    ex_failed,          \* whether a (sub)batch failed for good
    ex_result,          \* what the retry exporter returned for the batch
    ex_remote,          \* [span id -> times exported remotely]
    ex_file             \* [span id -> times written to the fallback file]

exportVars == <<ex_pc, ex_batch, ex_fails, ex_stack, ex_failed, ex_result,
                ex_remote, ex_file>>


\* ---- the arguments of logfire.configure() (config.py 151-280) ----
VARIABLES
    ar_pc,              \* "idle", "ready", "called"
    ar_env,             \* the interpreter and the environment's default
    ar_call,            \* the arguments of the configure() call that ended
    ar_global,          \* GLOBAL_CONFIG: settings, _initialized, providers
    ar_raised           \* what the call raised, "None" when it returned

argVars == <<ar_pc, ar_env, ar_call, ar_global, ar_raised>>


\* ---- open spans and the exit callbacks (config.py 90, 616-622, 768-775) ----
VARIABLES
    xt_pc,              \* "idle", "running", "exiting", "exited"
    xt_atexit,          \* the callbacks registered with atexit, oldest first
    xt_provider,        \* the SDK tracer provider in use, 0 for the no-op one
    xt_built,           \* how many SDK tracer providers were built
    xt_down,            \* the providers that are shut down
    xt_open,            \* OPEN_SPANS: [span -> the provider that started it]
    xt_closed           \* the spans closed: by whom and against what provider

exitVars == <<xt_pc, xt_atexit, xt_provider, xt_built, xt_down, xt_open, xt_closed>>


\* ---- auto-tracing with a min_duration (test_auto_trace.py 462-513) ----
VARIABLES
    mt_factory,         \* [function -> "measure" or "span"]: what a call enters
    mt_stack,           \* the calls in progress, outermost first
    mt_clock,           \* the time
    mt_calls,           \* how many calls were made
    mt_long,            \* the functions with a measured call >= min_duration
    mt_done             \* the calls that returned

minVars == <<mt_factory, mt_stack, mt_clock, mt_calls, mt_long, mt_done>>


\* ---- install_auto_tracing (test_auto_trace.py 20-36, 164-198) ----
VARIABLES
    ia_pc,              \* "idle", "ready", "called"
    ia_modules,         \* sys.modules: the names of the imported modules
    ia_meta_path,       \* sys.meta_path, front first
    ia_call,            \* the arguments of the call that ended
    ia_raised,          \* what the call raised, "None" when it returned
    ia_warned           \* whether the call issued the already-imported warning

installVars == <<ia_pc, ia_modules, ia_meta_path, ia_call, ia_raised, ia_warned>>


\* ---- the module filter (test_auto_trace.py 31-36, 189-194, 345-364) ----
VARIABLES
    fl_prefix,          \* the prefix the filter is built from
    fl_name,            \* the name of the module the filter is asked about
    fl_result           \* "not-called", "match" or "no-match"

filterVars == <<fl_prefix, fl_name, fl_result>>


\* ---- rewrite_ast (test_auto_trace.py 233-342, 367-459) ----
VARIABLES
    rw_tree,            \* the definitions of the module's source, in source order
    rw_done,            \* whether the source was rewritten
    rw_factories        \* context_factories: the definitions given a span

rewriteVars == <<rw_tree, rw_done, rw_factories>>


\* ---- the tracer provider _initialize builds (config.py 609-648, 728-740) ----
VARIABLES
    bd_pc,              \* "idle", "ready", "built"
    bd_settings,        \* the LogfireConfig fields _initialize reads
    bd_sampler,         \* the sampler of the SDK tracer provider
    bd_processors       \* the span processors of the SDK tracer provider

buildVars == <<bd_pc, bd_settings, bd_sampler, bd_processors>>


\* ---- LogfireCredentials.from_token (config.py 945-982) ----
VARIABLES
    ft_pc,              \* "idle", "ready", "returned"
    ft_token,           \* the token argument
    ft_base_url,        \* the base_url argument
    ft_response,        \* what the GET /v1/info request comes to
    ft_result,          \* the value returned
    ft_warnings         \* the warnings issued, in order

tokenVars == <<ft_pc, ft_token, ft_base_url, ft_response, ft_result, ft_warnings>>


\* ---- LogfireCredentials.initialize_project (config.py 1262-1315) ----
VARIABLES
    ip_pc,              \* "idle", "projects", "confirm", "use", "create", "construct", "done"
    ip_args,            \* the arguments logfire_api_url and project_name
    ip_log,             \* what was called and asked on the way
    ip_credentials,     \* the local variable `credentials`
    ip_result           \* how the call ended

initProjVars == <<ip_pc, ip_args, ip_log, ip_credentials, ip_result>>


\* ---- configure() and initialize() of one LogfireConfig from several threads ----
VARIABLES
    lk_pc,              \* [LockThreads]: where the thread is in its call
    lk_call,            \* [LockThreads]: the call and its arguments
    lk_held,            \* [LockThreads]: `with self._lock:` blocks the thread is in
    lk_owner,           \* the thread that owns self._lock (RLock)
    lk_count,           \* the recursion level of self._lock
    lk_config,          \* the LogfireConfig: settings, _initialized, what is installed
    lk_calls            \* the calls started so far

lockVars == <<lk_pc, lk_call, lk_held, lk_owner, lk_count, lk_config, lk_calls>>


\* ---- write_creds_file followed by load_creds_file ----
VARIABLES
    rt_creds,           \* the LogfireCredentials that are written
    rt_file,            \* <creds_dir>/logfire_credentials.json
    rt_written,         \* whether write_creds_file has run
    rt_loaded           \* what load_creds_file gave after the write

roundVars == <<rt_creds, rt_file, rt_written, rt_loaded>>


\* ---- the user token and the project-management requests ----
VARIABLES
    au_pc,              \* "idle", "user_token", "request", "organization", "post", "done"
    au_call,            \* the method called, logfire_api_url and the auth file
    au_token,           \* the local variable user_token
    au_requests,        \* the requests sent so far
    au_result           \* how the method ended

authVars == <<au_pc, au_call, au_token, au_requests, au_result>>

vars == <<mainVars, credVars, projVars, useVars, pipeVars, flushVars, sanVars, exportVars, argVars, exitVars, minVars, installVars, filterVars, rewriteVars, buildVars, tokenVars, initProjVars, lockVars, roundVars, authVars>>

\* a credentials file written by an earlier run
StoredCreds ==
    [token |-> "token-file", project_name |-> "stored-project",
     project_url |-> "url-file", logfire_api_url |-> "api"]

\* what initialize_project returns when the user ends with a project
BootstrapCreds ==
    [token |-> "token-new", project_name |-> "my-project",
     project_url |-> "url-new", logfire_api_url |-> "api"]

\* the credentials files the lifecycle starts from
InitialFiles ==
    {NoFile, OtherFile("badjson"), ObjectFile(
        [k \in FileKeys |-> IF k \in CredsFields THEN StoredCreds[k] ELSE Absent])}

\* the process environment: OTEL_EXPORTER_OTLP_ENDPOINT unset, or set (with
\* OTEL_TRACES_EXPORTER and OTEL_METRICS_EXPORTER left at 'otlp')
OtlpEnvs == {[traces |-> FALSE, metrics |-> FALSE], [traces |-> TRUE, metrics |-> TRUE]}

NoInfo ==
    [cfg |-> None, send |-> None, token |-> None, fileRead |-> FALSE,
     fileAtRead |-> NoFile, fileResult |-> "unread", prompted |-> FALSE,
     wrote |-> FALSE,
     processors |-> {}, readers |-> {}, exporterToken |-> None,
     done |-> FALSE]

\* a thread: the config it was started on (the `self` of check_token), the
\* token that configure() call had, the token it sends, and how it ended
NoThread ==
    [state |-> "none", cfg |-> None, startedFor |-> None, token |-> None]

MainInit ==
    /\ pc = [t \in Callers |-> "idle"]
    /\ cfgOf = [t \in Callers |-> None]
    /\ genOf = [t \in Callers |-> 0]
    /\ lastError = [t \in Callers |-> None]
    /\ calls = 0
    /\ lock = [c \in Configs |-> NoOwner]
    /\ send_to_logfire = [c \in Configs |-> "True"]
    /\ token = [c \in Configs |-> None]
    /\ initialized = [c \in Configs |-> FALSE]
    /\ has_set_providers = [c \in Configs |-> FALSE]
    /\ tracer_provider = [c \in Configs |-> NoOpProvider]
    /\ meter_provider = [c \in Configs |-> NoOpProvider]
    /\ tp = [g \in Gens |-> "unbuilt"]
    /\ mp = [g \in Gens |-> "unbuilt"]
    /\ info = [g \in Gens |-> NoInfo]
    /\ nextGen = 0
    /\ thread = [g \in Gens |-> NoThread]
    /\ warnings = {}
    /\ otlpEnv \in OtlpEnvs
    /\ credsFile \in InitialFiles
    /\ globalSets = 0
    /\ globalProvider = None
    /\ successes = [c \in Configs |-> 0]

\* load_creds_file has not been called
NotCalled == [tag |-> "not-called", creds |-> NoCreds]

CredsIdle ==
    /\ fc_file = NoFile
    /\ fc_result = NotCalled

\* no str: the None of `project_name: str | None`
NoName == <<"<None>">>

\* project_name_prompt = 'Enter the project name'
EnterPrompt == [msg |-> "Enter the project name", name |-> NoName]

\* f"A project with the name '{project_name}' already exists. Please enter a
\* different project name"
ExistsPrompt(name) == [msg |-> "already exists", name |-> name]

\* f'The project name you entered is invalid:\n{error["msg"]}\nPlease enter a
\* different project name'
InvalidPrompt == [msg |-> "invalid: error msg", name |-> NoName]

\* create_new_project has not been called
ProjectIdle ==
    /\ cp_pc = "idle"
    /\ project_name = NoName
    /\ project_name_default = NoName
    /\ project_name_prompt = EnterPrompt
    /\ force_project_name_prompt = FALSE
    /\ cp_cwd = <<>>
    /\ cp_posts = 0
    /\ cp_posted = NoName
    /\ cp_error = None

\* no project: organization and project_name both None
NoProject == [organization_name |-> None, project_name |-> None]

\* use_existing_project has not been called
UseIdle ==
    /\ up_pc = "idle"
    /\ up_args = NoProject
    /\ projects = <<>>
    /\ organization = None
    /\ up_project_name = None
    /\ filtered_projects = <<>>
    /\ up_asked = {}
    /\ project_choices = <<>>
    /\ up_request = NoProject
    /\ up_result = "not-called"

\* no pipeline was built
NoPipeline == [built |-> FALSE]

\* the span pipeline before any configure()
PipeIdle ==
    /\ pl_pc = "idle"
    /\ pl_settings = NoPipeline
    /\ pl_processors = <<>>
    /\ pl_spans = <<>>
    /\ pl_clock = 0
    /\ pl_st = NoPipeline

\* a provider whose flush is never asked for
NoFlush == [takes |-> 0, raises |-> FALSE]

\* no force_flush is called
FlushIdle ==
    /\ ff_pc = "idle"
    /\ ff_timeout = 0
    /\ ff_meter = NoFlush
    /\ ff_tracer = NoFlush
    /\ ff_meter_result = "not-called"
    /\ ff_result = "not-called"

\* sanitize_project_name has not returned
NotSanitized == <<"<not-called>">>

\* no name is being sanitized
SanitizeIdle ==
    /\ sn_name = <<>>
    /\ sn_result = NotSanitized

\* nothing is exported
ExportIdle ==
    /\ ex_pc = "idle"
    /\ ex_batch = <<>>
    /\ ex_fails = {}
    /\ ex_stack = <<>>
    /\ ex_failed = FALSE
    /\ ex_result = "not-called"
    /\ ex_remote = <<>>
    /\ ex_file = <<>>


\* configure() was never called
ArgsIdle ==
    /\ ar_pc = "idle"
    /\ ar_env = [minor |-> 12, inspect_default |-> "False"]
    /\ ar_call = [processors |-> "None", metric_readers |-> "None",
                  collect_system_metrics |-> "None", scrubbing |-> "None",
                  scrubbing_callback |-> "None", scrubbing_patterns |-> "None",
                  inspect_arguments |-> "None"]
    /\ ar_global = [initialized |-> FALSE, inspect_arguments |-> "False",
                    scrubbing |-> "None", providers |-> "NoOp"]
    /\ ar_raised = "None"


\* no process
ExitIdle ==
    /\ xt_pc = "idle"
    /\ xt_atexit = <<>>
    /\ xt_provider = 0
    /\ xt_built = 0
    /\ xt_down = {}
    /\ xt_open = <<>>
    /\ xt_closed = {}


\* auto-tracing is not installed
MinDurationIdle ==
    /\ mt_factory = <<>>
    /\ mt_stack = <<>>
    /\ mt_clock = 0
    /\ mt_calls = 0
    /\ mt_long = {}
    /\ mt_done = {}


\* install_auto_tracing is not called
InstallIdle ==
    /\ ia_pc = "idle"
    /\ ia_modules = {}
    /\ ia_meta_path = <<>>
    /\ ia_call = <<>>
    /\ ia_raised = "None"
    /\ ia_warned = FALSE


\* no filter is asked
FilterIdle ==
    /\ fl_prefix = <<>>
    /\ fl_name = <<>>
    /\ fl_result = "not-called"


\* no source is rewritten
RewriteIdle ==
    /\ rw_tree = <<>>
    /\ rw_done = FALSE
    /\ rw_factories = <<>>


\* no tracer provider is built
BuildIdle ==
    /\ bd_pc = "idle"
    /\ bd_settings = <<>>
    /\ bd_sampler = <<>>
    /\ bd_processors = <<>>


\* from_token is not called
FromTokenIdle ==
    /\ ft_pc = "idle"
    /\ ft_token = "None"
    /\ ft_base_url = "None"
    /\ ft_response = <<>>
    /\ ft_result = <<>>
    /\ ft_warnings = <<>>


\* initialize_project is not called
InitProjectIdle ==
    /\ ip_pc = "idle"
    /\ ip_args = <<>>
    /\ ip_log = <<>>
    /\ ip_credentials = <<>>
    /\ ip_result = <<>>


\* no thread calls configure() or initialize()
LockIdle ==
    /\ lk_pc = <<>>
    /\ lk_call = <<>>
    /\ lk_held = <<>>
    /\ lk_owner = "idle"
    /\ lk_count = 0
    /\ lk_config = <<>>
    /\ lk_calls = 0


\* no credentials are written
RoundTripIdle ==
    /\ rt_creds = <<>>
    /\ rt_file = <<>>
    /\ rt_written = FALSE
    /\ rt_loaded = <<>>


\* no project-management method is called
AuthIdle ==
    /\ au_pc = "idle"
    /\ au_call = <<>>
    /\ au_token = "None"
    /\ au_requests = <<>>
    /\ au_result = "not-called"

\* the lifecycle before any configure(), in one environment
MainIdle ==
    /\ MainInit
    /\ credsFile = NoFile
    /\ ~otlpEnv.traces

Init == MainInit /\ CredsIdle /\ ProjectIdle /\ UseIdle /\ PipeIdle /\ FlushIdle /\ SanitizeIdle /\ ExportIdle /\ ArgsIdle /\ ExitIdle /\ MinDurationIdle /\ InstallIdle /\ FilterIdle /\ RewriteIdle /\ BuildIdle /\ FromTokenIdle /\ InitProjectIdle /\ LockIdle /\ RoundTripIdle /\ AuthIdle

\* ------------------------------------------------------------------------
\* LogfireConfig.configure / initialize / _initialize, one action per step
\* ------------------------------------------------------------------------

\* leaving `with self._lock:` by an exception
Raise(t, exc) ==
    /\ pc' = [pc EXCEPT ![t] = "idle"]
    /\ lastError' = [lastError EXCEPT ![t] = exc]
    /\ lock' = [lock EXCEPT ![cfgOf[t]] = NoOwner]
    /\ cfgOf' = [cfgOf EXCEPT ![t] = None]
    /\ genOf' = [genOf EXCEPT ![t] = 0]

\* the next statement of _initialize
Goto(t, label) ==
    /\ pc' = [pc EXCEPT ![t] = label]
    /\ UNCHANGED <<lastError, lock, cfgOf>>

Step(t, label) == Goto(t, label) /\ UNCHANGED genOf

\* mutant: _initialized is cleared only once the settings are loaded
ConfigureClearingAfterLoad(t, c, send, tok, loadOk) ==
    /\ pc[t] = "idle"
    /\ calls < MaxConfigures
    /\ lock[c] = NoOwner
    /\ calls' = calls + 1
    /\ cfgOf' = [cfgOf EXCEPT ![t] = IF loadOk THEN c ELSE None]
    /\ initialized' = [initialized EXCEPT ![c] = IF loadOk THEN FALSE ELSE @]
    /\ send_to_logfire' = [send_to_logfire EXCEPT ![c] = send]
    /\ token' = [token EXCEPT ![c] = tok]
    /\ pc' = [pc EXCEPT ![t] = IF loadOk THEN "build_tracer" ELSE "idle"]
    /\ lastError' = [lastError EXCEPT ![t] = IF loadOk THEN None ELSE "LogfireConfigError"]
    /\ lock' = [lock EXCEPT ![c] = IF loadOk THEN t ELSE NoOwner]
    /\ UNCHANGED <<genOf, has_set_providers, tracer_provider, meter_provider,
                   resVars, thrVars, envVars>>

\* configure(): take the lock, clear _initialized, _load_configuration.
\* loadOk = FALSE is _load_configuration raising LogfireConfigError
\* (inspect_arguments on an old Python), after the settings are assigned.
Configure(t, c, send, tok, loadOk) ==
    /\ pc[t] = "idle"
    /\ calls < MaxConfigures
    /\ lock[c] = NoOwner
    /\ calls' = calls + 1
    /\ cfgOf' = [cfgOf EXCEPT ![t] = IF loadOk THEN c ELSE None]
    /\ initialized' = [initialized EXCEPT ![c] = FALSE]
    /\ send_to_logfire' = [send_to_logfire EXCEPT ![c] = send]
    /\ token' = [token EXCEPT ![c] = tok]
    /\ pc' = [pc EXCEPT ![t] = IF loadOk THEN "build_tracer" ELSE "idle"]
    /\ lastError' = [lastError EXCEPT ![t] = IF loadOk THEN None ELSE "LogfireConfigError"]
    /\ lock' = [lock EXCEPT ![c] = IF loadOk THEN t ELSE NoOwner]
    /\ UNCHANGED <<genOf, has_set_providers, tracer_provider, meter_provider,
                   resVars, thrVars, envVars>>

\* initialize(): take the lock; _initialize returns at once when the config
\* is initialized, and runs with the settings the object holds otherwise
Initialize(t, c) ==
    /\ pc[t] = "idle"
    /\ calls < MaxConfigures
    /\ lock[c] = NoOwner
    /\ calls' = calls + 1
    /\ lastError' = [lastError EXCEPT ![t] = None]
    /\ IF initialized[c]
       THEN UNCHANGED <<pc, lock, cfgOf>>
       ELSE /\ pc' = [pc EXCEPT ![t] = "build_tracer"]
            /\ lock' = [lock EXCEPT ![c] = t]
            /\ cfgOf' = [cfgOf EXCEPT ![t] = c]
    /\ UNCHANGED <<genOf, cfgVars, resVars, thrVars, envVars>>

\* tracer_provider = SDKTracerProvider(sampler, resource, id_generator)
BuildTracerProvider(t) ==
    /\ pc[t] = "build_tracer"
    /\ LET g == nextGen + 1
           c == cfgOf[t]
       IN  /\ nextGen' = g
           /\ genOf' = [genOf EXCEPT ![t] = g]
           /\ tp' = [tp EXCEPT ![g] = "live"]
           /\ info' = [info EXCEPT ![g].cfg = c]
    /\ Goto(t, "swap_tracer")
    /\ UNCHANGED <<calls, cfgVars, mp, thrVars, envVars>>

\* what is remembered of the generations once providers changed to tpNew and
\* mpNew: a generation whose providers are both shut down has nothing
\* installed any more, and its record is dropped
Remember(inf, tpNew, mpNew) ==
    [g \in Gens |->
        IF tpNew[g] = "shutdown" /\ mpNew[g] \in {"shutdown", "unbuilt"}
        THEN NoInfo ELSE inf[g]]

\* mutant: the old tracer provider is replaced without being shut down
SwapTracerProviderNoShutdown(t) ==
    /\ pc[t] = "swap_tracer"
    /\ LET c == cfgOf[t]
           old == tracer_provider[c]
       IN  /\ tp' = tp
           /\ tracer_provider' = [tracer_provider EXCEPT ![c] = genOf[t]]
    /\ info' = Remember(info, tp', mp)
    /\ Step(t, "gate")
    /\ UNCHANGED <<calls, send_to_logfire, token, initialized,
                   has_set_providers, meter_provider, mp, nextGen,
                   thrVars, envVars>>

\* self._tracer_provider.shutdown(); self._tracer_provider.set_provider(...)
SwapTracerProvider(t) ==
    /\ pc[t] = "swap_tracer"
    /\ LET c == cfgOf[t]
           old == tracer_provider[c]
       IN  /\ tp' = IF old = NoOpProvider THEN tp ELSE [tp EXCEPT ![old] = "shutdown"]
           /\ tracer_provider' = [tracer_provider EXCEPT ![c] = genOf[t]]
    /\ info' = Remember(info, tp', mp)
    /\ Step(t, "gate")
    /\ UNCHANGED <<calls, send_to_logfire, token, initialized,
                   has_set_providers, meter_provider, mp, nextGen,
                   thrVars, envVars>>

\* mutant: 'if-token-present' opens the gate without a token
GateOpenIgnoringToken(c) ==
    send_to_logfire[c] \in {"True", "if-token-present"}

\* (send_to_logfire == 'if-token-present' and token is not None)
\*     or send_to_logfire is True
GateOpen(c) ==
    \/ send_to_logfire[c] = "if-token-present" /\ token[c] # None
    \/ send_to_logfire[c] = "True"

\* the gate is closed: nothing of the Logfire export is set up
SkipLogfire(t) ==
    /\ pc[t] = "gate"
    /\ ~GateOpen(cfgOf[t])
    /\ info' = [info EXCEPT ![genOf[t]].send = send_to_logfire[cfgOf[t]],
                            ![genOf[t]].token = token[cfgOf[t]]]
    /\ Step(t, "otlp_env")
    /\ UNCHANGED <<calls, cfgVars, tp, mp, nextGen, thrVars, envVars>>

\* mutant: the token of the credentials file is validated like a given one
LoadCredsAndValidate(t) ==
    /\ pc[t] = "gate"
    /\ GateOpen(cfgOf[t])
    /\ token[cfgOf[t]] = None
    /\ LET c == cfgOf[t]
           g == genOf[t]
           r == load_creds_file(credsFile)
       IN  /\ info' = [info EXCEPT ![g].send = send_to_logfire[c],
                                   ![g].token = token[c],
                                   ![g].fileRead = TRUE,
                                   ![g].fileAtRead = credsFile,
                                   ![g].fileResult = r.tag]
           /\ CASE r.tag = "creds" ->
                     /\ token' = [token EXCEPT ![c] = r.creds["token"]]
                     /\ thread' = [thread EXCEPT ![g] =
                            [NoThread EXCEPT !.state = "started", !.cfg = c,
                                             !.startedFor = r.creds["token"]]]
                     /\ Step(t, "exporter")
                [] r.tag = "None" ->
                     /\ UNCHANGED <<token, thread>>
                     /\ Step(t, "bootstrap")
                [] OTHER ->
                     /\ UNCHANGED <<token, thread>>
                     /\ Raise(t, r.tag)
    /\ UNCHANGED <<calls, send_to_logfire, initialized,
                   has_set_providers, tracer_provider, meter_provider,
                   tp, mp, nextGen, warnings, envVars>>

\* token is None: LogfireCredentials.load_creds_file(self.data_dir)
LoadCreds(t) ==
    /\ pc[t] = "gate"
    /\ GateOpen(cfgOf[t])
    /\ token[cfgOf[t]] = None
    /\ LET c == cfgOf[t]
           g == genOf[t]
           r == load_creds_file(credsFile)
       IN  /\ info' = [info EXCEPT ![g].send = send_to_logfire[c],
                                   ![g].token = token[c],
                                   ![g].fileRead = TRUE,
                                   ![g].fileAtRead = credsFile,
                                   ![g].fileResult = r.tag]
           /\ CASE r.tag = "creds" ->
                     /\ token' = [token EXCEPT ![c] = r.creds["token"]]
                     /\ Step(t, "exporter")
                [] r.tag = "None" ->
                     /\ UNCHANGED token
                     /\ Step(t, "bootstrap")
                [] OTHER ->
                     /\ UNCHANGED token
                     /\ Raise(t, r.tag)
    /\ UNCHANGED <<calls, send_to_logfire, initialized,
                   has_set_providers, tracer_provider, meter_provider,
                   tp, mp, nextGen, thrVars, envVars>>

\* LogfireCredentials.initialize_project(...): it returns credentials, raises
\* LogfireConfigError, or exits the process (SystemExit)
InitializeProject(t, outcome) ==
    /\ pc[t] = "bootstrap"
    /\ info' = [info EXCEPT ![genOf[t]].prompted = TRUE]
    /\ IF outcome = "creds" THEN Step(t, "write_creds") ELSE Raise(t, outcome)
    /\ UNCHANGED <<calls, cfgVars, tp, mp, nextGen, thrVars, envVars>>

\* mutant: the credentials of the new project are used but not written
WriteCredsNotPersisted(t) ==
    /\ pc[t] = "write_creds"
    /\ credsFile' = credsFile
    /\ token' = [token EXCEPT ![cfgOf[t]] = BootstrapCreds["token"]]
    /\ info' = [info EXCEPT ![genOf[t]].wrote = TRUE]
    /\ Step(t, "exporter")
    /\ UNCHANGED <<calls, send_to_logfire, initialized,
                   has_set_providers, tracer_provider, meter_provider,
                   tp, mp, nextGen, thrVars, globalSets, globalProvider, successes,
                   otlpEnv>>

\* credentials.write_creds_file(self.data_dir); self.token = credentials.token
WriteCreds(t) ==
    /\ pc[t] = "write_creds"
    /\ credsFile' = write_creds_file(BootstrapCreds)
    /\ token' = [token EXCEPT ![cfgOf[t]] = BootstrapCreds["token"]]
    /\ info' = [info EXCEPT ![genOf[t]].wrote = TRUE]
    /\ Step(t, "exporter")
    /\ UNCHANGED <<calls, send_to_logfire, initialized,
                   has_set_providers, tracer_provider, meter_provider,
                   tp, mp, nextGen, thrVars, globalSets, globalProvider, successes,
                   otlpEnv>>

\* token is not None: Thread(target=check_token).start(), never joined
StartCheckToken(t) ==
    /\ pc[t] = "gate"
    /\ GateOpen(cfgOf[t])
    /\ token[cfgOf[t]] # None
    /\ info' = [info EXCEPT ![genOf[t]].send = send_to_logfire[cfgOf[t]],
                            ![genOf[t]].token = token[cfgOf[t]]]
    /\ thread' = [thread EXCEPT ![genOf[t]] =
                     [NoThread EXCEPT !.state = "started", !.cfg = cfgOf[t],
                                      !.startedFor = token[cfgOf[t]]]]
    /\ Step(t, "exporter")
    /\ UNCHANGED <<calls, cfgVars, tp, mp, nextGen, warnings, envVars>>

\* mutant: thread.join() before the exporter is built
AddLogfireExporterAfterJoin(t) ==
    /\ pc[t] = "exporter"
    /\ thread[genOf[t]].state \in {"none", "done", "failed"}
    /\ info' = [info EXCEPT
                  ![genOf[t]].processors = @ \cup {"logfire"},
                  ![genOf[t]].readers = @ \cup {"logfire"},
                  ![genOf[t]].exporterToken = token[cfgOf[t]]]
    /\ Step(t, "otlp_env")
    /\ UNCHANGED <<calls, cfgVars, tp, mp, nextGen, thrVars, envVars>>

\* the OTLP span exporter with the token in its Authorization header, in
\* RetryFewerSpans, Fallback and RemovePendingSpans, on a BatchSpanProcessor;
\* and the PeriodicExportingMetricReader on the OTLP metric exporter
AddLogfireExporter(t) ==
    /\ pc[t] = "exporter"
    /\ info' = [info EXCEPT
                  ![genOf[t]].processors = @ \cup {"logfire"},
                  ![genOf[t]].readers = @ \cup {"logfire"},
                  ![genOf[t]].exporterToken = token[cfgOf[t]]]
    /\ Step(t, "otlp_env")
    /\ UNCHANGED <<calls, cfgVars, tp, mp, nextGen, thrVars, envVars>>

\* the PendingSpanProcessor, and the exporters that the OTEL_EXPORTER_OTLP_*
\* environment variables ask for
AddOtlpEnvExporters(t) ==
    /\ pc[t] = "otlp_env"
    /\ info' = [info EXCEPT
                  ![genOf[t]].processors =
                      @ \cup (IF @ # {} THEN {"pending"} ELSE {})
                        \cup (IF otlpEnv.traces THEN {"otlp_env"} ELSE {}),
                  ![genOf[t]].readers =
                      @ \cup (IF otlpEnv.metrics THEN {"otlp_env"} ELSE {})]
    /\ Step(t, "build_meter")
    /\ UNCHANGED <<calls, cfgVars, tp, mp, nextGen, thrVars, envVars>>

\* meter_provider = MeterProvider(metric_readers=..., ...)
BuildMeterProvider(t) ==
    /\ pc[t] = "build_meter"
    /\ mp' = [mp EXCEPT ![genOf[t]] = "live"]
    /\ Step(t, "swap_meter")
    /\ UNCHANGED <<calls, cfgVars, tp, info, nextGen, thrVars, envVars>>

\* the timeout of the shutdown is not raised: the new provider is set
SwapMeterProviderSwallowingTimeout(t, inTime) ==
    /\ pc[t] = "swap_meter"
    /\ LET c == cfgOf[t]
           old == meter_provider[c]
       IN  /\ old = NoOpProvider => inTime
           /\ mp' = IF old = NoOpProvider THEN mp
                    ELSE [mp EXCEPT ![old] = IF inTime THEN "shutdown"
                                             ELSE "shutdown_timed_out"]
           /\ meter_provider' = [meter_provider EXCEPT ![c] = genOf[t]]
           /\ Step(t, "register")
    /\ info' = Remember(info, tp, mp')
    /\ UNCHANGED <<calls, send_to_logfire, token, initialized,
                   has_set_providers, tracer_provider, tp, nextGen,
                   thrVars, envVars>>

\* self._meter_provider.shutdown(timeout_millis=200), which "may raise an
\* Exception if it times out"; then self._meter_provider.set_meter_provider
SwapMeterProvider(t, inTime) ==
    /\ pc[t] = "swap_meter"
    /\ LET c == cfgOf[t]
           old == meter_provider[c]
       IN  IF old = NoOpProvider
           THEN /\ inTime
                /\ meter_provider' = [meter_provider EXCEPT ![c] = genOf[t]]
                /\ UNCHANGED mp
                /\ Step(t, "register")
           ELSE IF inTime
           THEN /\ mp' = [mp EXCEPT ![old] = "shutdown"]
                /\ meter_provider' = [meter_provider EXCEPT ![c] = genOf[t]]
                /\ Step(t, "register")
           ELSE /\ mp' = [mp EXCEPT ![old] = "shutdown_timed_out"]
                /\ UNCHANGED meter_provider
                /\ Raise(t, "Exception")
    /\ info' = Remember(info, tp, mp')
    /\ UNCHANGED <<calls, send_to_logfire, token, initialized,
                   has_set_providers, tracer_provider, tp, nextGen,
                   thrVars, envVars>>

\* mutant: the globals are set by every initialization of GLOBAL_CONFIG
RegisterGloballyEveryTime(t) ==
    /\ pc[t] = "register"
    /\ LET c == cfgOf[t]
       IN  IF c = "GLOBAL_CONFIG"
           THEN /\ has_set_providers' = [has_set_providers EXCEPT ![c] = TRUE]
                /\ globalSets' = globalSets + 1
                /\ globalProvider' = c
           ELSE UNCHANGED <<has_set_providers, globalSets, globalProvider>>
    /\ Step(t, "finish")
    /\ UNCHANGED <<calls, send_to_logfire, token, initialized,
                   tracer_provider, meter_provider, resVars, thrVars,
                   credsFile, successes, otlpEnv>>

\* if self is GLOBAL_CONFIG and not self._has_set_providers: set the globals
RegisterGlobally(t) ==
    /\ pc[t] = "register"
    /\ LET c == cfgOf[t]
       IN  IF c = "GLOBAL_CONFIG" /\ ~has_set_providers[c]
           THEN /\ has_set_providers' = [has_set_providers EXCEPT ![c] = TRUE]
                /\ globalSets' = globalSets + 1
                /\ globalProvider' = c
           ELSE UNCHANGED <<has_set_providers, globalSets, globalProvider>>
    /\ Step(t, "finish")
    /\ UNCHANGED <<calls, send_to_logfire, token, initialized,
                   tracer_provider, meter_provider, resVars, thrVars,
                   credsFile, successes, otlpEnv>>

\* self._initialized = True; return, leaving the lock
FinishInitialize(t) ==
    /\ pc[t] = "finish"
    /\ initialized' = [initialized EXCEPT ![cfgOf[t]] = TRUE]
    /\ info' = [info EXCEPT ![genOf[t]].done = TRUE]
    /\ pc' = [pc EXCEPT ![t] = "idle"]
    /\ lock' = [lock EXCEPT ![cfgOf[t]] = NoOwner]
    /\ cfgOf' = [cfgOf EXCEPT ![t] = None]
    /\ genOf' = [genOf EXCEPT ![t] = 0]
    /\ successes' = [successes EXCEPT ![cfgOf[t]] = @ + 1]
    /\ UNCHANGED lastError
    /\ UNCHANGED <<calls, send_to_logfire, token,
                   has_set_providers, tracer_provider, meter_provider,
                   tp, mp, nextGen, thrVars, credsFile, globalSets,
                   globalProvider, otlpEnv>>

\* ------------------------------------------------------------------------
\* The check_logfire_token thread
\* ------------------------------------------------------------------------

\* check_token(): assert self.token is not None, then
\* self._initialize_credentials_from_token(self.token) sends GET /v1/info;
\* self.token is read when the thread runs
CheckTokenRun(g) ==
    /\ thread[g].state = "started"
    /\ LET tok == token[thread[g].cfg]
       IN  thread' = IF tok = None
                     THEN [thread EXCEPT ![g] = [NoThread EXCEPT !.state = "failed"]]
                     ELSE [thread EXCEPT ![g].state = "requesting",
                                         ![g].token = tok]
    /\ UNCHANGED <<callVars, cfgVars, resVars, warnings, envVars>>

\* what the /v1/info request comes to
InfoOutcomes == {"200", "401", "500", "RequestException"}

\* the warning LogfireCredentials.from_token issues, if any
FromTokenWarning(outcome) ==
    CASE outcome = "RequestException" -> {"Logfire API is unreachable"}
      [] outcome = "401"              -> {"Invalid Logfire token."}
      [] outcome = "200"              -> {}
      [] OTHER                        -> {"Logfire API is unhealthy"}

\* mutant: a 401 raises LogfireConfigError in the thread instead of warning
from_token_raising(g, outcome) ==
    /\ thread' = [thread EXCEPT ![g] = [NoThread EXCEPT !.state = "done"]]
    /\ warnings' = warnings \cup (IF outcome = "401" THEN {} ELSE FromTokenWarning(outcome))
    /\ UNCHANGED <<callVars, cfgVars, resVars, envVars>>

\* LogfireCredentials.from_token in the thread: credentials on 200, a
\* warning and None on a request error, on 401 and on every other status;
\* nothing is raised, and the thread ends
from_token(g, outcome) ==
    /\ thread' = [thread EXCEPT ![g] = [NoThread EXCEPT !.state = "done"]]
    /\ warnings' = warnings \cup FromTokenWarning(outcome)
    /\ UNCHANGED <<callVars, cfgVars, resVars, envVars>>

InfoResponse(g, outcome) ==
    /\ thread[g].state = "requesting"
    /\ from_token(g, outcome)

\* the arguments configure() is called with in the model: every combination
\* on GLOBAL_CONFIG; the other instance sends nothing to Logfire
ConfigureArgs(c) ==
    IF c = "GLOBAL_CONFIG"
    THEN [send : SendValues, token : ArgTokens \cup {None}]
    ELSE [send : {"False", "if-token-present"}, token : {None}]

\* the other specifications' variables stay as they are
MainFrozen == UNCHANGED <<credVars, projVars, useVars, pipeVars, flushVars, sanVars, exportVars, argVars, exitVars, minVars, installVars, filterVars, rewriteVars, buildVars, tokenVars, initProjVars, lockVars, roundVars, authVars>>

Next ==
    \/ \E t \in Callers, c \in Configs, loadOk \in BOOLEAN :
          \E args \in ConfigureArgs(c) :
              Configure(t, c, args.send, args.token, loadOk) /\ MainFrozen
    \/ \E t \in Callers, c \in Configs : Initialize(t, c) /\ MainFrozen
    \/ \E t \in Callers : BuildTracerProvider(t) /\ MainFrozen
    \/ \E t \in Callers : SwapTracerProvider(t) /\ MainFrozen
    \/ \E t \in Callers : SkipLogfire(t) /\ MainFrozen
    \/ \E t \in Callers : LoadCreds(t) /\ MainFrozen
    \/ \E t \in Callers, outcome \in {"creds", "LogfireConfigError", "SystemExit"} :
          InitializeProject(t, outcome) /\ MainFrozen
    \/ \E t \in Callers : WriteCreds(t) /\ MainFrozen
    \/ \E t \in Callers : StartCheckToken(t) /\ MainFrozen
    \/ \E t \in Callers : AddLogfireExporter(t) /\ MainFrozen
    \/ \E t \in Callers : AddOtlpEnvExporters(t) /\ MainFrozen
    \/ \E t \in Callers : BuildMeterProvider(t) /\ MainFrozen
    \/ \E t \in Callers, inTime \in BOOLEAN : SwapMeterProvider(t, inTime) /\ MainFrozen
    \/ \E t \in Callers : RegisterGlobally(t) /\ MainFrozen
    \/ \E t \in Callers : FinishInitialize(t) /\ MainFrozen
    \/ \E g \in Gens : CheckTokenRun(g) /\ MainFrozen
    \/ \E g \in Gens, outcome \in InfoOutcomes : InfoResponse(g, outcome) /\ MainFrozen

Spec == Init /\ [][Next]_vars

\* ------------------------------------------------------------------------
\* Claims about the configure()/_initialize() lifecycle (Spec)
\* ------------------------------------------------------------------------

\* the generations of config c that hold a live provider
LiveGens(c) ==
    {g \in Gens : info[g].cfg = c /\ (tp[g] = "live" \/ mp[g] = "live")}

\* C1 as stated: while a run of _initialize builds the resources of its
\* generation, no other generation of the same config has a live tracer or
\* meter provider (the old providers are shut down before anything new is
\* built, so two configurations never coexist)
C1_ShutdownBeforeBuild ==
    \A t \in Callers :
        pc[t] # "idle" /\ genOf[t] # 0 => LiveGens(cfgOf[t]) \subseteq {genOf[t]}

\* C1 amended: a provider held by a proxy is replaced only in a step that
\* shuts it down, the tracer provider and the meter provider alike; a
\* provider that was replaced is never left live
C1_ReplacedProviderIsShutDown ==
    [][\A c \in Configs :
          /\ tracer_provider'[c] # tracer_provider[c] /\ tracer_provider[c] # NoOpProvider
                => tp'[tracer_provider[c]] = "shutdown"
          /\ meter_provider'[c] # meter_provider[c] /\ meter_provider[c] # NoOpProvider
                => mp'[meter_provider[c]] = "shutdown"]_vars

\* C1 witness: a reconfiguration has replaced and shut down both providers of
\* an earlier generation and ended initialized
C1_Witness ==
    \E c \in Configs, g \in Gens :
        /\ initialized[c]
        /\ tracer_provider[c] > g /\ meter_provider[c] > g
        /\ tp[g] = "shutdown" /\ mp[g] = "shutdown"
        /\ successes[c] >= 2

\* C2: the OTEL globals are set at most once, to GLOBAL_CONFIG's proxies, and
\* they are set exactly when an initialization of GLOBAL_CONFIG got past its
\* last failing step: no failed configuration and no other config sets them
C2_GlobalProvidersSetOnce ==
    /\ globalSets <= 1
    /\ globalProvider = IF globalSets = 1 THEN "GLOBAL_CONFIG" ELSE None
    /\ \A c \in Configs \ {"GLOBAL_CONFIG"} : ~has_set_providers[c]
    /\ globalSets = 1 <=>
          \/ successes["GLOBAL_CONFIG"] >= 1
          \/ \E t \in Callers : pc[t] = "finish" /\ cfgOf[t] = "GLOBAL_CONFIG"

\* C2 witness: GLOBAL_CONFIG was configured successfully twice and the globals
\* were set once
C2_Witness ==
    /\ successes["GLOBAL_CONFIG"] >= 2
    /\ globalSets = 1

C20_InvalidTokenRaises ==
    [][\A g \in Gens, outcome \in InfoOutcomes :
          InfoResponse(g, outcome) =>
              IF outcome = "401"
              THEN thread'[g].state = "failed" /\ warnings' = warnings
              ELSE thread'[g].state = "done"]_vars

\* from_token was answered 401 and returned: it warned and raised nothing
C20_FailingInput ==
    \E g \in Gens :
        /\ thread[g].state = "done"
        /\ warnings = {"Invalid Logfire token."}

GateWasOpen(g) ==
    \/ info[g].send = "True"
    \/ info[g].send = "if-token-present" /\ info[g].token # None

\* C6 as stated: with the gate closed no network exporter of any kind is
\* installed, no credentials file is read, nothing is prompted and no thread
\* is started
C6_ClosedGateNoNetworkExporter ==
    \A g \in Gens :
        info[g].send # None /\ ~GateWasOpen(g) =>
            /\ info[g].processors \cap {"logfire", "otlp_env"} = {}
            /\ info[g].readers = {}
            /\ ~info[g].fileRead /\ ~info[g].prompted
            /\ thread[g].state = "none"

\* C6 amended: the exporters that carry the project token are installed only
\* with the gate open, and with the gate closed no file is read, nothing is
\* prompted and no thread is started; the exporters the OTEL_EXPORTER_OTLP_*
\* environment asks for are installed whatever the gate says
C6_ClosedGateNoLogfireExporter ==
    \A g \in Gens :
        /\ info[g].send # None /\ ~GateWasOpen(g) =>
              /\ "logfire" \notin info[g].processors
              /\ "logfire" \notin info[g].readers
              /\ ~info[g].fileRead /\ ~info[g].prompted
              /\ thread[g].state = "none"
        /\ "logfire" \in (info[g].processors \cup info[g].readers) => GateWasOpen(g)
        /\ info[g].done =>
              /\ "otlp_env" \in info[g].processors <=> otlpEnv.traces
              /\ "otlp_env" \in info[g].readers <=> otlpEnv.metrics

\* C6 witness: a configuration with the gate closed is initialized, and the
\* exporter of the OTLP environment is installed on it
C6_Witness ==
    \E g \in Gens :
        /\ info[g].done /\ info[g].send = "False"
        /\ "otlp_env" \in info[g].processors
        /\ "logfire" \notin info[g].processors

\* C8: the credentials a bootstrap produced are in the file from the moment
\* they are written, and a generation that finds them there loads them,
\* prompts nothing, writes nothing and gives their token to the exporter
C8_BootstrapPersistedAndReused ==
    \A g \in Gens :
        /\ info[g].wrote => credsFile = write_creds_file(BootstrapCreds)
        /\ info[g].fileRead /\ info[g].fileAtRead = write_creds_file(BootstrapCreds) =>
              /\ info[g].fileResult = "creds"
              /\ ~info[g].prompted /\ ~info[g].wrote
              /\ "logfire" \in info[g].processors =>
                    info[g].exporterToken = BootstrapCreds["token"]

\* C8 witness: a later configure() found the file the bootstrap wrote and is
\* initialized with the exporter installed
C8_Witness ==
    \E g \in Gens :
        /\ info[g].fileRead /\ info[g].fileAtRead = write_creds_file(BootstrapCreds)
        /\ info[g].done /\ "logfire" \in info[g].processors

\* ------------------------------------------------------------------------
\* SpecCreds: LogfireCredentials.load_creds_file over the file contents
\* ------------------------------------------------------------------------

\* every JSON object over the keys and values of the model
FileObjects == [FileKeys -> FileValues \cup {Absent}]

\* every content of the credentials path
AllFiles ==
    {OtherFile(kind) : kind \in FileKinds \ {"object"}}
        \cup {ObjectFile(obj) : obj \in FileObjects}

InitCreds ==
    /\ MainIdle
    /\ ProjectIdle
    /\ UseIdle
    /\ PipeIdle
    /\ FlushIdle
    /\ SanitizeIdle
    /\ ExportIdle
    /\ ArgsIdle
    /\ ExitIdle
    /\ MinDurationIdle
    /\ InstallIdle
    /\ FilterIdle
    /\ RewriteIdle
    /\ BuildIdle
    /\ FromTokenIdle
    /\ InitProjectIdle
    /\ LockIdle
    /\ RoundTripIdle
    /\ AuthIdle
    /\ fc_file \in AllFiles
    /\ fc_result = NotCalled

\* LogfireCredentials.load_creds_file(creds_dir)
LoadCredsFile ==
    /\ fc_result = NotCalled
    /\ fc_result' = load_creds_file(fc_file)
    /\ UNCHANGED fc_file

NextCreds ==
    \/ LoadCredsFile /\ UNCHANGED <<mainVars, projVars, useVars, pipeVars, flushVars, sanVars, exportVars, argVars, exitVars, minVars, installVars, filterVars, rewriteVars, buildVars, tokenVars, initProjVars, lockVars, roundVars, authVars>>

SpecCreds == InitCreds /\ [][NextCreds]_vars

\* the keys an object holds
KeysOf(obj) == {k \in FileKeys : obj[k] # Absent}

\* C7: of an existing file, load_creds_file loads credentials or raises
\* LogfireConfigError: a file that is not JSON, cannot be read, or does not
\* hold the keys of the credentials (with dashboard_url standing in for
\* project_url) and only those raises LogfireConfigError; None is returned
\* only when there is no file; credentials are never partial
C7_InvalidFileRaisesConfigError ==
    fc_result # NotCalled =>
        /\ fc_result.tag = "None" <=> fc_file.kind = "absent"
        /\ fc_result.tag \in {"None", "creds", "LogfireConfigError"}
        /\ fc_result.tag = "creds" =>
              /\ fc_file.kind = "object"
              /\ \A k \in CredsFields : fc_result.creds[k] # Absent

\* the file holds one of the values that exist and are not credentials
C7_FailingInput ==
    /\ fc_result # NotCalled
    /\ fc_file.kind = "scalar"
    /\ fc_result.tag = "AttributeError"
\* the object file given to load_creds_file has token, project_name and
\* logfire_api_url and no unknown key: only its URL keys are in question
C9_UrlKeysOnly ==
    /\ fc_result # NotCalled
    /\ fc_file.kind = "object"
    /\ KeysOf(fc_file.obj) \ {"project_url", "dashboard_url"}
          = CredsFields \ {"project_url"}

\* the file loads, with project_url equal to url and the other fields as
\* they are in the file
C9_LoadsWithUrl(url) ==
    /\ fc_result.tag = "creds"
    /\ fc_result.creds["project_url"] = url
    /\ \A k \in CredsFields \ {"project_url"} : fc_result.creds[k] = fc_file.obj[k]

\* C9 as stated: a file with only dashboard_url loads with project_url equal
\* to its value, a file with project_url (alone or with dashboard_url) loads
\* with project_url as it is in the file
C9_LegacyKeyAliased ==
    C9_UrlKeysOnly =>
        LET obj == fc_file.obj
        IN  /\ obj["project_url"] # Absent => C9_LoadsWithUrl(obj["project_url"])
            /\ obj["project_url"] = Absent /\ obj["dashboard_url"] # Absent
                  => C9_LoadsWithUrl(obj["dashboard_url"])

\* C9 amended: a file with only dashboard_url loads with project_url equal to
\* its value when that value is not null, and is rejected with
\* LogfireConfigError when it is null; a file with project_url loads with
\* project_url as it is in the file, whatever dashboard_url holds; what the
\* constructor is given never has the key dashboard_url
C9_NonNullLegacyKeyAliased ==
    C9_UrlKeysOnly =>
        LET obj == fc_file.obj
        IN  /\ obj["project_url"] # Absent => C9_LoadsWithUrl(obj["project_url"])
            /\ obj["project_url"] = Absent /\ obj["dashboard_url"] \notin {Absent, None}
                  => C9_LoadsWithUrl(obj["dashboard_url"])
            /\ obj["project_url"] = Absent /\ obj["dashboard_url"] = None
                  => fc_result.tag = "LogfireConfigError"
            /\ HandleLegacyKey(obj)["dashboard_url"] = Absent

\* C9 witness: a file with both keys, holding different values, was loaded
C9_Witness ==
    /\ C9_UrlKeysOnly
    /\ fc_result.tag = "creds"
    /\ fc_file.obj["dashboard_url"] \notin {Absent, None}
    /\ fc_file.obj["project_url"] \notin {Absent, fc_file.obj["dashboard_url"]}
\* ------------------------------------------------------------------------
\* SpecProject: LogfireCredentials.create_new_project
\* ------------------------------------------------------------------------

\* the characters of the model: a lowercase letter, a hyphen and a space
Chars == {"a", "-", " "}

\* strings are sequences of characters; the lines a user can type and the
\* project_name arguments are the strings of at most MaxLen characters
Lines == UNION {[1..n -> Chars] : n \in 0..MaxLen}

\* rich's default=... : the prompt has no default and an answer is required
EllipsisDefault == <<"<...>">>

\* a-z, A-Z and 0-9
LowerLetters ==
    <<"a", "b", "c", "d", "e", "f", "g", "h", "i", "j", "k", "l", "m",
      "n", "o", "p", "q", "r", "s", "t", "u", "v", "w", "x", "y", "z">>

UpperLetters ==
    <<"A", "B", "C", "D", "E", "F", "G", "H", "I", "J", "K", "L", "M",
      "N", "O", "P", "Q", "R", "S", "T", "U", "V", "W", "X", "Y", "Z">>

Digits == {"0", "1", "2", "3", "4", "5", "6", "7", "8", "9"}

LowerAlnum == {LowerLetters[i] : i \in DOMAIN LowerLetters} \cup Digits

UpperAlpha == {UpperLetters[i] : i \in DOMAIN UpperLetters}

\* str.lower() on A-Z
ToLower ==
    [ch \in UpperAlpha |->
        LowerLetters[CHOOSE i \in DOMAIN UpperLetters : UpperLetters[i] = ch]]

\* [a-z0-9]
IsLowerAlnum(ch) == ch \in LowerAlnum

\* [a-zA-Z0-9]
IsAlnum(ch) == ch \in LowerAlnum \/ ch \in UpperAlpha

\* mutant: no lowercasing
LowerKeepingCase(ch) == ch

\* str.lower() on one character that [a-zA-Z0-9] matches
Lower(ch) == IF ch \in UpperAlpha THEN ToLower[ch] ELSE ch

\* re.match(PROJECT_NAME_PATTERN, name) is not None, for a name without a
\* newline: ^[a-z0-9]+(?:-[a-z0-9]+)*$ takes one or more runs of [a-z0-9]
\* with single hyphens between them
MatchesPattern(name) ==
    /\ Len(name) > 0
    /\ \A i \in 1..Len(name) : IsLowerAlnum(name[i]) \/ name[i] = "-"
    /\ name[1] # "-" /\ name[Len(name)] # "-"
    /\ \A i \in 1..(Len(name) - 1) : ~(name[i] = "-" /\ name[i + 1] = "-")

RECURSIVE LStrip(_)
\* str.lstrip()
LStrip(str) ==
    IF str # <<>> /\ Head(str) = " " THEN LStrip(Tail(str)) ELSE str

RECURSIVE RStrip(_)
\* str.rstrip()
RStrip(str) ==
    IF str # <<>> /\ str[Len(str)] = " "
    THEN RStrip(SubSeq(str, 1, Len(str) - 1)) ELSE str

\* str.strip()
Strip(str) == RStrip(LStrip(str))

\* Prompt.ask(prompt, default=default) when the user types the line raw: the
\* default on an empty line if there is a default, the stripped line otherwise
PromptAsk(raw, default) ==
    IF raw = <<>> /\ default # EllipsisDefault THEN default ELSE Strip(raw)

\* the truth value of `project_name`: None and '' are false
Truthy(name) == name # NoName /\ name # <<>>

\* the slice [:41] of sanitize_project_name
NameLimit == 41

Untitled == <<"u", "n", "t", "i", "t", "l", "e", "d">>

RECURSIVE RemoveNonAlnum(_)
\* re.sub(r'[^a-zA-Z0-9]', '', name)
RemoveNonAlnum(name) ==
    IF name = <<>> THEN <<>>
    ELSE IF Len(name) = 1 THEN (IF IsAlnum(name[1]) THEN name ELSE <<>>)
    ELSE LET half == Len(name) \div 2
         IN  RemoveNonAlnum(SubSeq(name, 1, half))
             \o RemoveNonAlnum(SubSeq(name, half + 1, Len(name)))

sanitize_project_name_keeping_empty(name) ==
    LET kept == RemoveNonAlnum(name)
        lowered == [i \in 1..Len(kept) |-> Lower(kept[i])]
    IN  SubSeq(lowered, 1, IF Len(lowered) < NameLimit THEN Len(lowered) ELSE NameLimit)

\* re.sub(r'[^a-zA-Z0-9]', '', name).lower()[:41] or 'untitled'
sanitize_project_name(name) ==
    LET kept == RemoveNonAlnum(name)
        lowered == [i \in 1..Len(kept) |-> Lower(kept[i])]
        cut == SubSeq(lowered, 1, IF Len(lowered) < NameLimit THEN Len(lowered) ELSE NameLimit)
    IN  IF cut = <<>> THEN Untitled ELSE cut

\* sanitize_project_name(os.path.basename(os.getcwd()))
default_project_name == sanitize_project_name(cp_cwd)

\* the directories the process runs in: "/", and one with a name that is
\* not a project name
CwdNames == {<<>>, <<"A", "-", "a">>}

\* create_new_project(project_name=..., force_project_name_prompt=...) is
\* called
InitProject ==
    /\ MainIdle
    /\ CredsIdle
    /\ UseIdle
    /\ PipeIdle
    /\ FlushIdle
    /\ SanitizeIdle
    /\ ExportIdle
    /\ ArgsIdle
    /\ ExitIdle
    /\ MinDurationIdle
    /\ InstallIdle
    /\ FilterIdle
    /\ RewriteIdle
    /\ BuildIdle
    /\ FromTokenIdle
    /\ InitProjectIdle
    /\ LockIdle
    /\ RoundTripIdle
    /\ AuthIdle
    /\ cp_pc = "user_token"
    /\ project_name \in Lines \cup {NoName}
    /\ project_name_default = NoName
    /\ project_name_prompt = EnterPrompt
    /\ force_project_name_prompt \in BOOLEAN
    /\ cp_cwd \in CwdNames
    /\ cp_posts = 0
    /\ cp_posted = NoName
    /\ cp_error = None

\* create_new_project ends by raising exc
ProjectRaise(exc) ==
    /\ cp_pc' = "done"
    /\ cp_error' = exc

\* user_token = cls._get_user_token(...): LogfireConfigError when the user is
\* not logged in
GetUserToken(loggedIn) ==
    /\ cp_pc = "user_token"
    /\ IF loggedIn
       THEN cp_pc' = "organizations" /\ UNCHANGED cp_error
       ELSE ProjectRaise("LogfireConfigError")
    /\ UNCHANGED <<project_name, project_name_default, project_name_prompt,
                   force_project_name_prompt,
                   cp_cwd, cp_posts, cp_posted>>

\* GET /v1/organizations/, then the organization is taken from the argument,
\* the user's default, a prompt, or the only one there is; `proceed` is the
\* request succeeding and the user not declining the confirmation
SelectOrganization(outcome) ==
    /\ cp_pc = "organizations"
    /\ CASE outcome = "selected" -> cp_pc' = "name_default" /\ UNCHANGED cp_error
         [] outcome = "RequestException" -> ProjectRaise("LogfireConfigError")
         [] outcome = "declined" -> ProjectRaise("SystemExit")
    /\ UNCHANGED <<project_name, project_name_default, project_name_prompt,
                   force_project_name_prompt,
                   cp_cwd, cp_posts, cp_posted>>

\* project_name_default = project_name or default_project_name()
SetProjectNameDefault ==
    /\ cp_pc = "name_default"
    /\ project_name_default' =
          IF Truthy(project_name) THEN project_name ELSE default_project_name
    /\ cp_pc' = "loop"
    /\ UNCHANGED <<project_name, project_name_prompt, force_project_name_prompt,
                   cp_cwd, cp_posts,
                   cp_posted, cp_error>>

\* while True: if force_project_name_prompt or not project_name:
\*     project_name = Prompt.ask(project_name_prompt, default=...)
AskProjectName(raw) ==
    /\ cp_pc = "loop"
    /\ force_project_name_prompt \/ ~Truthy(project_name)
    /\ project_name' = PromptAsk(raw, project_name_default)
    /\ cp_pc' = "validate"
    /\ UNCHANGED <<project_name_default, project_name_prompt,
                   force_project_name_prompt, cp_cwd,
                   cp_posts, cp_posted, cp_error>>

\* the `if` is false: the project_name given is kept
KeepProjectName ==
    /\ cp_pc = "loop"
    /\ ~(force_project_name_prompt \/ ~Truthy(project_name))
    /\ cp_pc' = "validate"
    /\ UNCHANGED <<project_name, project_name_default, project_name_prompt,
                   force_project_name_prompt,
                   cp_cwd, cp_posts, cp_posted, cp_error>>

\* while project_name and not re.match(PROJECT_NAME_PATTERN, project_name):
\*     project_name = Prompt.ask("...is invalid...", default=...)
AskValidProjectName(raw) ==
    /\ cp_pc = "validate"
    /\ Truthy(project_name) /\ ~MatchesPattern(project_name)
    /\ project_name' = PromptAsk(raw, project_name_default)
    /\ UNCHANGED <<cp_pc, project_name_default, project_name_prompt,
                   force_project_name_prompt,
                   cp_cwd, cp_posts, cp_posted, cp_error>>

\* what the server answers to the POST: 422-name is a 422 whose first error
\* is at ['body', 'project_name'], 422-other any other 422
PostResponses == {"200", "409", "422-name", "422-other", "500", "RequestException"}

\* mutant: a 409 is handled like any other failed response
PostProjectConflictFatal(response) ==
    /\ cp_pc = "validate"
    /\ ~(Truthy(project_name) /\ ~MatchesPattern(project_name))
    /\ cp_posts' = cp_posts + 1
    /\ cp_posted' = project_name
    /\ CASE response = "422-name" ->
              /\ cp_posts + 1 < MaxPosts
              /\ project_name_default' = EllipsisDefault
              /\ project_name_prompt' = InvalidPrompt
              /\ project_name' = NoName
              /\ cp_pc' = "loop"
              /\ UNCHANGED cp_error
         [] response = "200" ->
              /\ cp_pc' = "done"
              /\ UNCHANGED <<project_name, project_name_default,
                             project_name_prompt, cp_error>>
         [] OTHER ->
              /\ ProjectRaise("LogfireConfigError")
              /\ UNCHANGED <<project_name, project_name_default, project_name_prompt>>
    /\ UNCHANGED <<force_project_name_prompt, cp_cwd>>

\* the inner loop has ended: session.post(url, json={'project_name':
\* project_name}) and the handling of the response
PostProject(response) ==
    /\ cp_pc = "validate"
    /\ ~(Truthy(project_name) /\ ~MatchesPattern(project_name))
    /\ cp_posts' = cp_posts + 1
    /\ cp_posted' = project_name
    /\ CASE response \in {"409", "422-name"} ->
              /\ cp_posts + 1 < MaxPosts
              /\ project_name_default' = EllipsisDefault
              /\ project_name_prompt' =
                    IF response = "409" THEN ExistsPrompt(project_name) ELSE InvalidPrompt
              /\ project_name' = NoName
              /\ cp_pc' = "loop"
              /\ UNCHANGED cp_error
         [] response = "200" ->
              /\ cp_pc' = "done"
              /\ UNCHANGED <<project_name, project_name_default,
                             project_name_prompt, cp_error>>
         [] OTHER ->
              /\ ProjectRaise("LogfireConfigError")
              /\ UNCHANGED <<project_name, project_name_default, project_name_prompt>>
    /\ UNCHANGED <<force_project_name_prompt, cp_cwd>>

\* the other specifications' variables stay as they are
ProjectFrozen == UNCHANGED <<mainVars, credVars, useVars, pipeVars, flushVars, sanVars, exportVars, argVars, exitVars, minVars, installVars, filterVars, rewriteVars, buildVars, tokenVars, initProjVars, lockVars, roundVars, authVars>>

NextProject ==
    \/ \E loggedIn \in BOOLEAN : GetUserToken(loggedIn) /\ ProjectFrozen
    \/ \E outcome \in {"selected", "RequestException", "declined"} :
          SelectOrganization(outcome) /\ ProjectFrozen
    \/ SetProjectNameDefault /\ ProjectFrozen
    \/ \E raw \in Lines : AskProjectName(raw) /\ ProjectFrozen
    \/ KeepProjectName /\ ProjectFrozen
    \/ \E raw \in Lines : AskValidProjectName(raw) /\ ProjectFrozen
    \/ \E response \in PostResponses : PostProject(response) /\ ProjectFrozen

SpecProject == InitProject /\ [][NextProject]_vars

\* C10 as stated: every project_name sent in a POST body matches
\* PROJECT_NAME_PATTERN, whatever the argument and whatever the user answers
C10_PostedNameMatchesPattern ==
    cp_posts > 0 => MatchesPattern(cp_posted)

\* an empty name was posted after the server refused a name that was valid
C10_FailingInput ==
    /\ cp_posts = 2
    /\ cp_posted = <<>>

\* C11: a 409, or a 422 whose first error is at body.project_name, does not
\* end create_new_project and raises nothing: the name is discarded, the
\* prompt carries the conflict or the server's message, there is no default
\* answer any more, and the user is asked again; a 200 returns; every other
\* response and a request error raise LogfireConfigError
C11_RetryOnConflictOrInvalidName ==
    [][\A response \in PostResponses :
          PostProject(response) =>
              CASE response \in {"409", "422-name"} ->
                      /\ cp_pc' = "loop" /\ cp_error' = None
                      /\ project_name' = NoName
                      /\ project_name_default' = EllipsisDefault
                      /\ project_name_prompt' =
                            IF response = "409"
                            THEN [msg |-> "already exists", name |-> project_name]
                            ELSE [msg |-> "invalid: error msg", name |-> NoName]
                      /\ force_project_name_prompt' \/ ~Truthy(project_name')
                [] response = "200" ->
                      cp_pc' = "done" /\ cp_error' = None
                [] OTHER ->
                      cp_pc' = "done" /\ cp_error' = "LogfireConfigError"]_vars

\* C11 witness: the server refused the first name, the user gave another one,
\* and the operation returned on the 200 that followed
C11_Witness ==
    /\ cp_pc = "done" /\ cp_error = None
    /\ cp_posts = 2
    /\ project_name_prompt.msg = "already exists"
    /\ project_name_default = EllipsisDefault
    /\ project_name # project_name_prompt.name

\* ------------------------------------------------------------------------
\* SpecUse: LogfireCredentials.use_existing_project
\* ------------------------------------------------------------------------

OrganizationNames == {"org-a", "org-b"}

ProjectNames == {"p", "q"}

\* the items of the list `projects`
ProjectItems == [organization_name : OrganizationNames, project_name : ProjectNames]

\* the lists of at most MaxProjects projects
ProjectLists == UNION {[1..n -> ProjectItems] : n \in 0..MaxProjects}

\* use_existing_project(projects=..., organization=..., project_name=...) is
\* called
InitUse ==
    /\ MainIdle
    /\ CredsIdle
    /\ ProjectIdle
    /\ PipeIdle
    /\ FlushIdle
    /\ SanitizeIdle
    /\ ExportIdle
    /\ ArgsIdle
    /\ ExitIdle
    /\ MinDurationIdle
    /\ InstallIdle
    /\ FilterIdle
    /\ RewriteIdle
    /\ BuildIdle
    /\ FromTokenIdle
    /\ InitProjectIdle
    /\ LockIdle
    /\ RoundTripIdle
    /\ AuthIdle
    /\ up_pc = "user_token"
    /\ projects \in ProjectLists
    /\ organization \in OrganizationNames \cup {None}
    /\ up_project_name \in ProjectNames \cup {None}
    /\ up_args = [organization_name |-> organization, project_name |-> up_project_name]
    /\ filtered_projects = <<>>
    /\ up_asked = {}
    /\ project_choices = <<>>
    /\ up_request = NoProject
    /\ up_result = "not-called"

\* use_existing_project ends with `result`
UseReturn(result) ==
    /\ up_pc' = "done"
    /\ up_result' = result

\* user_token = cls._get_user_token(...): LogfireConfigError when the user is
\* not logged in
UseGetUserToken(loggedIn) ==
    /\ up_pc = "user_token"
    /\ IF loggedIn
       THEN up_pc' = "filter" /\ UNCHANGED up_result
       ELSE UseReturn("LogfireConfigError")
    /\ UNCHANGED <<up_args, projects, organization, up_project_name,
                   filtered_projects, up_asked, project_choices, up_request>>

\* [p for p in list if p[key] == value], or the list when value is None
FilterBy(list, key, value) ==
    IF value = None THEN list
    ELSE LET Keep(p) == p[key] = value IN SelectSeq(list, Keep)

\* filtered_projects = projects, filtered by organization if it is not None
\* and then by project_name if it is not None
FilterProjects ==
    /\ up_pc = "filter"
    /\ filtered_projects' =
          FilterBy(FilterBy(projects, "organization_name", organization),
                   "project_name", up_project_name)
    /\ up_pc' = "match"
    /\ UNCHANGED <<up_args, projects, organization, up_project_name, up_asked,
                   project_choices, up_request, up_result>>

\* mutant: one remaining project is taken whether a name was given or not
ExactMatchWithoutName ==
    /\ up_pc = "match"
    /\ Len(filtered_projects) = 1
    /\ organization' = filtered_projects[1].organization_name
    /\ up_project_name' = filtered_projects[1].project_name
    /\ up_pc' = "select"
    /\ UNCHANGED <<up_args, projects, filtered_projects, up_asked,
                   project_choices, up_request, up_result>>

\* if project_name is not None and len(filtered_projects) == 1: exact match
ExactMatch ==
    /\ up_pc = "match"
    /\ up_project_name # None /\ Len(filtered_projects) = 1
    /\ organization' = filtered_projects[1].organization_name
    /\ up_project_name' = filtered_projects[1].project_name
    /\ up_pc' = "select"
    /\ UNCHANGED <<up_args, projects, filtered_projects, up_asked,
                   project_choices, up_request, up_result>>

\* elif not filtered_projects: if not projects: return None
NoProjects ==
    /\ up_pc = "match"
    /\ ~(up_project_name # None /\ Len(filtered_projects) = 1)
    /\ filtered_projects = <<>> /\ projects = <<>>
    /\ UseReturn("None")
    /\ UNCHANGED <<up_args, projects, organization, up_project_name,
                   filtered_projects, up_asked, project_choices, up_request>>

\* mutant: the arguments are kept when the search is widened
AskChooseFromAllKeepingArguments(answer) ==
    /\ up_pc = "match"
    /\ ~(up_project_name # None /\ Len(filtered_projects) = 1)
    /\ filtered_projects = <<>> /\ projects # <<>>
    /\ up_asked' = up_asked \cup {"choose from all"}
    /\ IF answer = "n"
       THEN /\ UseReturn("None")
            /\ UNCHANGED <<organization, up_project_name, filtered_projects>>
       ELSE /\ filtered_projects' = projects
            /\ up_pc' = "select"
            /\ UNCHANGED <<organization, up_project_name, up_result>>
    /\ UNCHANGED <<up_args, projects, project_choices, up_request>>

\* elif Prompt.ask('No ... found ... Choose from all projects?',
\* choices=['y', 'n'], default='y') == 'n': return None; else all projects
AskChooseFromAll(answer) ==
    /\ up_pc = "match"
    /\ ~(up_project_name # None /\ Len(filtered_projects) = 1)
    /\ filtered_projects = <<>> /\ projects # <<>>
    /\ up_asked' = up_asked \cup {"choose from all"}
    /\ IF answer = "n"
       THEN /\ UseReturn("None")
            /\ UNCHANGED <<organization, up_project_name, filtered_projects>>
       ELSE /\ filtered_projects' = projects
            /\ organization' = None
            /\ up_project_name' = None
            /\ up_pc' = "select"
            /\ UNCHANGED up_result
    /\ UNCHANGED <<up_args, projects, project_choices, up_request>>

\* else: multiple matches: organization = None; project_name = None
MultipleMatches ==
    /\ up_pc = "match"
    /\ ~(up_project_name # None /\ Len(filtered_projects) = 1)
    /\ filtered_projects # <<>>
    /\ organization' = None
    /\ up_project_name' = None
    /\ up_pc' = "select"
    /\ UNCHANGED <<up_args, projects, filtered_projects, up_asked,
                   project_choices, up_request, up_result>>

\* if organization is None or project_name is None: Prompt.ask('Please select
\* one of the following projects by number', choices=keys, default='1')
SelectProject(key) ==
    /\ up_pc = "select"
    /\ organization = None \/ up_project_name = None
    /\ key \in 1..Len(filtered_projects)
    /\ project_choices' = filtered_projects
    /\ up_asked' = up_asked \cup {"select"}
    /\ organization' = filtered_projects[key].organization_name
    /\ up_project_name' = filtered_projects[key].project_name
    /\ up_pc' = "request"
    /\ UNCHANGED <<up_args, projects, filtered_projects, up_request, up_result>>

\* the `if` is false: organization and project_name are kept
KeepProject ==
    /\ up_pc = "select"
    /\ ~(organization = None \/ up_project_name = None)
    /\ up_pc' = "request"
    /\ UNCHANGED <<up_args, projects, organization, up_project_name,
                   filtered_projects, up_asked, project_choices, up_request,
                   up_result>>

\* POST /v1/organizations/{organization}/projects/{project_name}/write-tokens/
RequestWriteToken(ok) ==
    /\ up_pc = "request"
    /\ up_request' = [organization_name |-> organization,
                      project_name |-> up_project_name]
    /\ UseReturn(IF ok THEN "token" ELSE "LogfireConfigError")
    /\ UNCHANGED <<up_args, projects, organization, up_project_name,
                   filtered_projects, up_asked, project_choices>>

\* the other specifications' variables stay as they are
UseFrozen == UNCHANGED <<mainVars, credVars, projVars, pipeVars, flushVars, sanVars, exportVars, argVars, exitVars, minVars, installVars, filterVars, rewriteVars, buildVars, tokenVars, initProjVars, lockVars, roundVars, authVars>>

NextUse ==
    \/ \E loggedIn \in BOOLEAN : UseGetUserToken(loggedIn) /\ UseFrozen
    \/ FilterProjects /\ UseFrozen
    \/ ExactMatch /\ UseFrozen
    \/ NoProjects /\ UseFrozen
    \/ \E answer \in {"y", "n"} : AskChooseFromAll(answer) /\ UseFrozen
    \/ MultipleMatches /\ UseFrozen
    \/ \E key \in 1..MaxProjects : SelectProject(key) /\ UseFrozen
    \/ KeepProject /\ UseFrozen
    \/ \E ok \in BOOLEAN : RequestWriteToken(ok) /\ UseFrozen

SpecUse == InitUse /\ [][NextUse]_vars

\* the indices of the projects that have the organization and the name that
\* were asked for
C12_Matching ==
    {i \in 1..Len(projects) :
        /\ up_args.organization_name \in {None, projects[i].organization_name}
        /\ up_args.project_name \in {None, projects[i].project_name}}

\* C12: once use_existing_project is past its choices, (1) nothing was asked
\* and a write token is requested exactly when a project name was given and one
\* project matches, and then for that project; (2) with no match the user is
\* asked whether to choose from all projects, unless there are no projects,
\* and None is returned exactly when there are no projects or the answer is
\* no; (3) otherwise the user selects by number among the matching projects,
\* or among all projects after widening, and the token is requested for the
\* project selected
C12_UseExistingProject ==
    up_pc \in {"request", "done"} /\ up_result # "LogfireConfigError" =>
        LET matching == C12_Matching
            exact == up_args.project_name # None /\ Cardinality(matching) = 1
            toRequest == [organization_name |-> organization,
                          project_name |-> up_project_name]
        IN  /\ up_asked = {} <=> exact \/ projects = <<>>
            /\ exact => \A i \in matching : toRequest = projects[i]
            /\ "choose from all" \in up_asked <=> matching = {} /\ projects # <<>>
            /\ up_result = "None" =>
                  /\ matching = {}
                  /\ up_request = NoProject
                  /\ "select" \notin up_asked
            /\ projects = <<>> => up_result = "None"
            /\ "select" \in up_asked =>
                  /\ ~exact
                  /\ \E key \in 1..Len(project_choices) : toRequest = project_choices[key]
                  /\ IF matching = {}
                     THEN project_choices = projects
                     ELSE /\ Len(project_choices) = Cardinality(matching)
                          /\ \A key \in 1..Len(project_choices) :
                                \E i \in matching : project_choices[key] = projects[i]
            /\ up_result = "token" => up_request = toRequest

\* C12 witness: two projects have the name asked for, the user selected the
\* second one, and the write token was requested for it
C12_Witness ==
    /\ up_result = "token"
    /\ up_args.project_name # None /\ up_args.organization_name = None
    /\ Cardinality(C12_Matching) = 2
    /\ up_asked = {"select"}
    /\ up_request = project_choices[2]
    /\ project_choices[1] # project_choices[2]

\* ======================================================================
\* The span pipeline: the processors _initialize registers on the tracer
\* provider, and the way a started and an ended span travels through them
\* ======================================================================

\* the real spans one run starts
MaxSpans == 2

\* the exporters a user-supplied span processor can carry: one of the
\* classes add_span_processor recognises, and one it does not
AdditionalExporters == {"TestExporter", "OtherExporter"}

\* additional_span_processors: None or a sequence of processors
AdditionalLists == {<<>>} \cup {<<e>> : e \in AdditionalExporters}

\* trace_sample_rate in tenths: 1.0
FullRate == 10

\* the sample rate of a processor that is no TailSamplingProcessor
NoRate == -1

\* the LogfireConfig fields read while the pipeline is built; send says
\* that the send_to_logfire gate is open
PipeSettings ==
    [built : {TRUE}, tail_sampling : BOOLEAN, console : BOOLEAN,
     span_style : {"simple"}, trace_sample_rate : {FullRate},
     additional : AdditionalLists, send : BOOLEAN, otlp_traces : BOOLEAN]

\* the underlying processors, by the place that creates them
PipeNames == {"additional", "console", "logfire", "otlp_env"}

\* a processor as its wrappers, outermost first, around an underlying one
Processor(layers, name, exporter) ==
    [layers |-> layers, name |-> name, exporter |-> exporter, targets |-> <<>>,
     sample_rate |-> NoRate]

\* the exporter classes whose processors also receive pending spans
PendingExporters ==
    {"TestExporter", "RemovePendingSpansExporter", "SimpleConsoleSpanExporter"}

\* the class an exporter class derives from: the console exporters of the
\* other styles derive from SimpleConsoleSpanExporter
ExporterBase(cls) ==
    CASE cls \in {"IndentedConsoleSpanExporter", "ShowParentsConsoleSpanExporter"}
            -> "SimpleConsoleSpanExporter"
      [] cls = "TestExporterSubclass" -> "TestExporter"
      [] OTHER -> "SpanExporter"

\* isinstance(exporter, classes) with the exact class only
IsExactlyOneOf(cls, classes) == cls \in classes

\* isinstance(exporter, classes)
IsInstance(cls, classes) ==
    cls \in classes \/ ExporterBase(cls) \in classes

\* getattr(span_processor, 'span_exporter', None) of a processor without
\* the attribute
NoSpanExporter == "None"

\* the tracer provider's processors and processors_with_pending_spans
NoProcessors == [provider |-> <<>>, pending |-> <<>>]

\* the wrappers add_span_processor puts around a processor
WrapperLayers(tail_sampling) ==
    IF tail_sampling
    THEN <<"MainSpanProcessorWrapper", "TailSamplingProcessor">>
    ELSE <<"MainSpanProcessorWrapper">>

\* the tail sampler always given the trace_sample_rate
TailSampleRateUnclamped(s) ==
    IF s.tail_sampling THEN s.trace_sample_rate ELSE NoRate

\* the random rate a TailSamplingProcessor is given
TailSampleRate(s) ==
    IF ~s.tail_sampling THEN NoRate
    ELSE IF s.trace_sample_rate < FullRate THEN s.trace_sample_rate
    ELSE 0

add_span_processor_unwrapped(b, span_processor, s) ==
    LET has_pending == IsInstance(span_processor.exporter, PendingExporters)
    IN  [provider |-> Append(b.provider, span_processor),
         pending |-> IF has_pending THEN Append(b.pending, span_processor)
                     ELSE b.pending]

add_span_processor(b, span_processor, s) ==
    LET has_pending == IsInstance(span_processor.exporter, PendingExporters)
        wrapped == [span_processor EXCEPT
                        !.layers = WrapperLayers(s.tail_sampling) \o @,
                        !.sample_rate = TailSampleRate(s)]
    IN  [provider |-> Append(b.provider, wrapped),
         pending |-> IF has_pending THEN Append(b.pending, wrapped)
                     ELSE b.pending]

\* for processor in self.additional_span_processors: add_span_processor(..)
RECURSIVE AddAdditional(_, _, _)
AddAdditional(b, exporters, s) ==
    IF exporters = <<>> THEN b
    ELSE AddAdditional(
            add_span_processor(
                b, Processor(<<>>, "additional", Head(exporters)), s),
            Tail(exporters), s)

PendingSpanProcessorTwice(targets) ==
    [layers |-> <<>>, name |-> "pending", exporter |-> "none",
     targets |-> targets \o targets, sample_rate |-> NoRate]

\* PendingSpanProcessor(self.id_generator, tuple(processors_with_pending_spans))
PendingSpanProcessor(targets) ==
    [layers |-> <<>>, name |-> "pending", exporter |-> "none",
     targets |-> targets, sample_rate |-> NoRate]

\* exporter_cls for self.console.span_style
ConsoleExporter(span_style) ==
    CASE span_style = "simple" -> "SimpleConsoleSpanExporter"
      [] span_style = "indented" -> "IndentedConsoleSpanExporter"
      [] OTHER -> "ShowParentsConsoleSpanExporter"

\* the processors of the tracer provider for one LogfireConfig
BuildProcessors(s) ==
    LET b1 == AddAdditional(NoProcessors, s.additional, s)
        b2 == IF s.console
              THEN add_span_processor(
                      b1, Processor(<<>>, "console", ConsoleExporter(s.span_style)), s)
              ELSE b1
        b3 == IF s.send
              THEN add_span_processor(
                      b2, Processor(<<>>, "logfire", "RemovePendingSpansExporter"), s)
              ELSE b2
        b4 == IF b3.pending # <<>>
              THEN [b3 EXCEPT
                       !.provider = Append(@, PendingSpanProcessor(b3.pending))]
              ELSE b3
        b5 == IF s.otlp_traces
              THEN add_span_processor(
                      b4, Processor(<<>>, "otlp_env", "OTLPSpanExporter"), s)
              ELSE b4
    IN  b5.provider

\* ---- spans ----

\* the names of the spans of tests/test_auto_trace.py, in start order
OpNames == <<"bar", "async_gen", "gen", "more">>

\* a secret attribute value as the API layer records it, and the marker
\* the scrubber leaves in its place
RawSecret == "hunter2"
Redacted == "[Redacted]"

\* the number of hexadecimal digits of a formatted span id
SpanIdDigits == 16

HexDigits ==
    <<"0", "1", "2", "3", "4", "5", "6", "7",
      "8", "9", "a", "b", "c", "d", "e", "f">>

RECURSIVE Pow16(_)
Pow16(k) == IF k = 0 THEN 1 ELSE 16 * Pow16(k - 1)

\* a span id as 16 hexadecimal digits, most significant first (the ids of
\* a run stay below 16^7, so the higher digits are zeros)
format_span_id(id) ==
    [i \in 1..SpanIdDigits |->
        IF SpanIdDigits - i >= 7 THEN "0"
        ELSE HexDigits[((id \div Pow16(SpanIdDigits - i)) % 16) + 1]]

\* a span with no parent has parent id 0
NoParent == 0

\* the real span the API layer starts
RealSpan(name, span_id, parent, start_time) ==
    [name |-> <<name>>, trace_id |-> 1, span_id |-> span_id, parent |-> parent,
     start_time |-> start_time, end_time |-> 0, span_type |-> "span",
     pending_parent_id |-> <<>>, password |-> RawSecret]

PendingSpanOwnParent(span, span_id) ==
    [name |-> span.name \o <<" (pending)">>, trace_id |-> span.trace_id,
     span_id |-> span_id, parent |-> span.span_id,
     start_time |-> span.start_time, end_time |-> span.start_time,
     span_type |-> "pending_span",
     pending_parent_id |-> format_span_id(span.span_id),
     password |-> span.password]

\* the pending span of a real span that starts
PendingSpan(span, span_id) ==
    [name |-> span.name \o <<" (pending)">>, trace_id |-> span.trace_id,
     span_id |-> span_id, parent |-> span.span_id,
     start_time |-> span.start_time, end_time |-> span.start_time,
     span_type |-> "pending_span",
     pending_parent_id |-> format_span_id(span.parent),
     password |-> span.password]

\* Scrubber.scrub_span: secret values are replaced by the marker
Scrub(span) == [span EXCEPT !.password = Redacted]

\* ---- what the processors hold ----

\* a tail sampler before its trace starts
NoTrace == [state |-> "NONE", buffer |-> <<>>, seen |-> {}]

\* the processors' state right after the pipeline is built
FreshState ==
    [built |-> TRUE,
     received |-> [n \in PipeNames |-> <<>>],
     tail |-> [n \in PipeNames |-> NoTrace],
     nextId |-> 0,
     emitted |-> <<>>,
     tracked |-> {}]

\* the underlying processor receives an ended span
Receive(name, span, st) ==
    [st EXCEPT !.received[name] = Append(@, span)]

RECURSIVE ReceiveAll(_, _, _)
ReceiveAll(name, spans, st) ==
    IF spans = <<>> THEN st
    ELSE ReceiveAll(name, Tail(spans), Receive(name, Head(spans), st))

TailOnEndForgettingDrop(name, span, decision, st) ==
    LET t == st.tail[name]
        saw == [st EXCEPT !.tail[name].seen = @ \cup {span.password}]
    IN  CASE t.state = "OPEN" /\ span.parent # NoParent ->
                [saw EXCEPT !.tail[name].buffer = Append(@, span)]
          [] t.state = "OPEN" /\ span.parent = NoParent /\ decision = "KEEP" ->
                ReceiveAll(name, Append(t.buffer, span),
                    [saw EXCEPT !.tail[name].state = "KEEP",
                                !.tail[name].buffer = <<>>])
          [] t.state = "OPEN" /\ span.parent = NoParent /\ decision # "KEEP" ->
                [saw EXCEPT !.tail[name].state = "DROP",
                            !.tail[name].buffer = <<>>]
          [] OTHER -> Receive(name, span, saw)

\* TailSamplingProcessor.on_end: buffer while the trace is open, decide
\* when the root ends, forward after KEEP, discard after DROP, and let a
\* span of an untracked trace through
TailOnEnd(name, span, decision, st) ==
    LET t == st.tail[name]
        saw == [st EXCEPT !.tail[name].seen = @ \cup {span.password}]
    IN  CASE t.state = "OPEN" /\ span.parent # NoParent ->
                [saw EXCEPT !.tail[name].buffer = Append(@, span)]
          [] t.state = "OPEN" /\ span.parent = NoParent /\ decision = "KEEP" ->
                ReceiveAll(name, Append(t.buffer, span),
                    [saw EXCEPT !.tail[name].state = "KEEP",
                                !.tail[name].buffer = <<>>])
          [] t.state = "OPEN" /\ span.parent = NoParent /\ decision # "KEEP" ->
                [saw EXCEPT !.tail[name].state = "DROP",
                            !.tail[name].buffer = <<>>]
          [] t.state = "DROP" -> saw
          [] OTHER -> Receive(name, span, saw)

\* on_end of a wrapped processor: each layer hands the span to the next
RECURSIVE OnEndLayers(_, _, _, _, _)
OnEndLayers(layers, name, span, decision, st) ==
    IF layers = <<>> THEN Receive(name, span, st)
    ELSE IF Head(layers) = "MainSpanProcessorWrapper"
    THEN OnEndLayers(Tail(layers), name, Scrub(span), decision, st)
    ELSE TailOnEnd(name, span, decision, st)

\* one processor of the tracer provider is told that a span ended; the
\* pending span processor only forgets the span
OnEnd(proc, span, decisions, st) ==
    IF proc.name = "pending"
    THEN [st EXCEPT !.tracked = @ \ {span.span_id}]
    ELSE OnEndLayers(proc.layers, proc.name, span, decisions[proc.name], st)

RECURSIVE OnEndAll(_, _, _, _)
OnEndAll(procs, span, decisions, st) ==
    IF procs = <<>> THEN st
    ELSE OnEndAll(Tail(procs), span, decisions,
                  OnEnd(Head(procs), span, decisions, st))

\* TailSamplingProcessor.on_start: a span with no parent opens its trace
TailOnStart(name, span, st) ==
    IF span.parent = NoParent
    THEN [st EXCEPT !.tail[name] = [NoTrace EXCEPT !.state = "OPEN"]]
    ELSE st

\* a pending span ends in a target the moment it is created, so no
\* sampling decision is due
NoDecisions == [n \in PipeNames |-> "KEEP"]

\* one processor of the tracer provider is told that a span started; the
\* pending span processor makes the pending span, with an id of its own,
\* and ends it in each of its targets
OnStart(proc, span, st) ==
    IF proc.name = "pending"
    THEN LET pending == PendingSpan(span, st.nextId + 1)
         IN  OnEndAll(proc.targets, pending, NoDecisions,
                 [st EXCEPT !.nextId = @ + 1,
                            !.emitted = Append(@, pending),
                            !.tracked = @ \cup {span.span_id}])
    ELSE IF "TailSamplingProcessor" \in {proc.layers[i] : i \in DOMAIN proc.layers}
    THEN TailOnStart(proc.name, span, st)
    ELSE st

RECURSIVE OnStartAll(_, _, _)
OnStartAll(procs, span, st) ==
    IF procs = <<>> THEN st
    ELSE OnStartAll(Tail(procs), span, OnStart(Head(procs), span, st))

\* ---- the actions ----

InitPipeline ==
    /\ MainIdle
    /\ CredsIdle
    /\ ProjectIdle
    /\ UseIdle
    /\ FlushIdle
    /\ SanitizeIdle
    /\ ExportIdle
    /\ ArgsIdle
    /\ ExitIdle
    /\ MinDurationIdle
    /\ InstallIdle
    /\ FilterIdle
    /\ RewriteIdle
    /\ BuildIdle
    /\ FromTokenIdle
    /\ InitProjectIdle
    /\ LockIdle
    /\ RoundTripIdle
    /\ AuthIdle
    /\ pl_pc = "idle"
    /\ pl_settings \in PipeSettings
    /\ pl_processors = <<>>
    /\ pl_spans = <<>>
    /\ pl_clock = 0
    /\ pl_st = NoPipeline

\* _initialize builds the tracer provider and registers the processors
PipeInitialize ==
    /\ pl_pc = "idle"
    /\ pl_pc' = "configured"
    /\ pl_processors' = BuildProcessors(pl_settings)
    /\ pl_st' = FreshState
    /\ UNCHANGED <<pl_settings, pl_spans, pl_clock>>

\* the spans started so far
Started == DOMAIN pl_spans

\* a span starts: the first one is the root of the trace, a later one is
\* the child of a span of the trace, which may have ended already
StartSpan(parent) ==
    /\ pl_pc = "configured"
    /\ Cardinality(Started) < MaxSpans
    /\ parent = NoParent <=> Started = {}
    /\ LET id == pl_st.nextId + 1
           span == RealSpan(OpNames[Cardinality(Started) + 1], id, parent,
                            pl_clock + 1)
       IN  /\ pl_spans' = (id :> span) @@ pl_spans
           /\ pl_st' = OnStartAll(pl_processors, span,
                                  [pl_st EXCEPT !.nextId = id])
    /\ pl_clock' = pl_clock + 1
    /\ UNCHANGED <<pl_pc, pl_settings, pl_processors>>

\* the outcomes of the samplers' decisions for a span that ends: each
\* tail sampler decides for itself, and only the end of the root asks
Decisions(span) ==
    IF span.parent = NoParent /\ pl_settings.tail_sampling
    THEN [PipeNames -> {"KEEP", "DROP"}]
    ELSE {NoDecisions}

\* an open span ends, in any order
EndSpan(id, decisions) ==
    /\ pl_pc = "configured"
    /\ id \in Started
    /\ pl_spans[id].end_time = 0
    /\ decisions \in Decisions(pl_spans[id])
    /\ LET span == [pl_spans[id] EXCEPT !.end_time = pl_clock + 1]
       IN  /\ pl_spans' = [pl_spans EXCEPT ![id] = span]
           /\ pl_st' = OnEndAll(pl_processors, span, decisions, pl_st)
    /\ pl_clock' = pl_clock + 1
    /\ UNCHANGED <<pl_pc, pl_settings, pl_processors>>

PipeFrozen == UNCHANGED <<mainVars, credVars, projVars, useVars, flushVars, sanVars, exportVars, argVars, exitVars, minVars, installVars, filterVars, rewriteVars, buildVars, tokenVars, initProjVars, lockVars, roundVars, authVars>>

NextPipeline ==
    \/ PipeInitialize /\ PipeFrozen
    \/ \E parent \in {NoParent} \cup Started : StartSpan(parent) /\ PipeFrozen
    \/ \E id \in Started, decisions \in [PipeNames -> {"KEEP", "DROP"}] :
            EndSpan(id, decisions) /\ PipeFrozen

SpecPipeline == InitPipeline /\ [][NextPipeline]_vars

\* ---- claims about the wrapping of the span processors ----

\* the processors that receive spans: those of the tracer provider other
\* than the pending span processor, and the targets of that one
ReceivingProcessors ==
    {pl_processors[i] : i \in DOMAIN pl_processors}
    \cup UNION {{pl_processors[i].targets[j] :
                    j \in DOMAIN pl_processors[i].targets} :
                i \in DOMAIN pl_processors}

SpansOf(seq) == {seq[i] : i \in DOMAIN seq}

\* C13: every processor that receives spans from the tracer provider built
\* by configure() (additional, console, Logfire batch, OTLP-environment
\* batch), directly or as a target of the pending span processor, is
\* wrapped scrubber first, then tail sampler when tail sampling is
\* configured, then the underlying processor; so every span and pending
\* span an underlying processor or a tail sampler receives is scrubbed, and
\* with tail sampling nothing reaches an underlying processor while its
\* sampler holds the trace open or has dropped it
C13_ProcessorsScrubThenSample ==
    pl_pc = "configured" =>
        /\ \A proc \in ReceivingProcessors :
              proc.name # "pending" =>
                  proc.layers = WrapperLayers(pl_settings.tail_sampling)
        /\ \A n \in PipeNames :
              /\ \A span \in SpansOf(pl_st.received[n]) \cup
                             SpansOf(pl_st.tail[n].buffer) :
                    span.password = Redacted
              /\ pl_st.tail[n].seen \subseteq {Redacted}
              /\ (pl_settings.tail_sampling
                    /\ pl_st.tail[n].state \in {"OPEN", "DROP"})
                     => pl_st.received[n] = <<>>

\* with tail sampling configured, a kept trace reached an underlying
\* processor with a pending span and a real span, both through the sampler
C13_Witness ==
    /\ pl_pc = "configured"
    /\ pl_settings.tail_sampling
    /\ \E n \in PipeNames :
          /\ pl_st.tail[n].state = "KEEP"
          /\ Redacted \in pl_st.tail[n].seen
          /\ \E a, b \in SpansOf(pl_st.received[n]) :
                a.span_type = "pending_span" /\ b.span_type = "span"
    /\ \E m \in PipeNames : pl_st.tail[m].state = "DROP"

\* ---- claims about pending spans ----

\* the processors a pending span processor of the pipeline forwards to
PendingTargets ==
    UNION {{pl_processors[i].targets[j].name :
                j \in DOMAIN pl_processors[i].targets} :
           i \in DOMAIN pl_processors}

\* the positions of a sequence that hold a pending span
PendingAt(seq) == {i \in DOMAIN seq : seq[i].span_type = "pending_span"}

\* the positions of a sequence that hold a real span
RealAt(seq) == {i \in DOMAIN seq : seq[i].span_type = "span"}

\* pending spans in the start order of their real spans, real spans in the
\* order they ended, and every real span after its own pending span
PendingThenRealInOrder(seq) ==
    /\ \A i, j \in PendingAt(seq) :
          i < j => seq[i].start_time < seq[j].start_time
    /\ \A i, j \in RealAt(seq) : i < j => seq[i].end_time < seq[j].end_time
    /\ \A i \in RealAt(seq) :
          \E j \in PendingAt(seq) : j < i /\ seq[j].parent = seq[i].span_id

RECURSIVE ParseHex(_)
ParseHex(digits) ==
    IF digits = <<>> THEN 0
    ELSE 16 * ParseHex(SubSeq(digits, 1, Len(digits) - 1))
         + (CHOOSE d \in 0..15 : HexDigits[d + 1] = digits[Len(digits)])

\* all the pending spans of the run: those emitted and those held anywhere
AllPending ==
    SpansOf(pl_st.emitted)
    \cup UNION {{s \in SpansOf(pl_st.received[n]) \cup SpansOf(pl_st.tail[n].buffer) :
                    s.span_type = "pending_span"} : n \in PipeNames}

\* C15: a pending span has the name of its real span followed by
\* ' (pending)', the same trace id, a span id no other span has, the real
\* span as parent, start and end time equal to the real span's start time,
\* span type 'pending_span', and a pending_parent_id that is the real
\* span's parent id as 16 hexadecimal digits, all zeros for a root span
C15_PendingSpanFields ==
    pl_pc = "configured" =>
        \A p \in AllPending :
            /\ p.parent \in Started
            /\ LET real == pl_spans[p.parent]
               IN  /\ p.name = real.name \o <<" (pending)">>
                   /\ p.trace_id = real.trace_id
                   /\ p.span_id \notin Started
                   /\ \A q \in AllPending :
                         q.span_id = p.span_id => q.parent = p.parent
                   /\ p.start_time = real.start_time
                   /\ p.end_time = real.start_time
                   /\ p.span_type = "pending_span"
                   /\ Len(p.pending_parent_id) = SpanIdDigits
                   /\ ParseHex(p.pending_parent_id) = real.parent
                   /\ real.parent = NoParent =>
                         \A i \in 1..SpanIdDigits : p.pending_parent_id[i] = "0"

\* the pending span of the root and the pending span of a child, whose
\* parent has a non-zero id, both reached an exporter
C15_Witness ==
    /\ pl_pc = "configured"
    /\ \E n \in PipeNames :
          \E p, q \in SpansOf(pl_st.received[n]) :
              /\ p.span_type = "pending_span"
              /\ q.span_type = "pending_span"
              /\ ParseHex(p.pending_parent_id) = NoParent
              /\ ParseHex(q.pending_parent_id) = 1

\* ======================================================================
\* LogfireConfig.force_flush
\* ======================================================================

\* the largest timeout_millis of a call, in units of the model's clock
MaxTimeout == 2

\* a provider's flush: the time it needs, and whether it ends with an
\* exception instead of a result
ProviderFlushes == [takes : 0..(MaxTimeout + 1), raises : BOOLEAN]

\* provider.force_flush(timeout_millis): True when the flush ended within
\* the timeout, False when it did not, or an exception
ProviderForceFlush(provider, timeout_millis) ==
    IF provider.raises THEN "raise"
    ELSE IF provider.takes <= timeout_millis THEN "True"
    ELSE "False"

InitFlush ==
    /\ MainIdle
    /\ CredsIdle
    /\ ProjectIdle
    /\ UseIdle
    /\ PipeIdle
    /\ SanitizeIdle
    /\ ExportIdle
    /\ ArgsIdle
    /\ ExitIdle
    /\ MinDurationIdle
    /\ InstallIdle
    /\ FilterIdle
    /\ RewriteIdle
    /\ BuildIdle
    /\ FromTokenIdle
    /\ InitProjectIdle
    /\ LockIdle
    /\ RoundTripIdle
    /\ AuthIdle
    /\ ff_pc = "meter"
    /\ ff_timeout \in 1..MaxTimeout
    /\ ff_meter \in ProviderFlushes
    /\ ff_tracer \in ProviderFlushes
    /\ ff_meter_result = "not-called"
    /\ ff_result = "not-called"

\* self._meter_provider.force_flush(timeout_millis)
FlushMeterProvider ==
    /\ ff_pc = "meter"
    /\ ff_meter_result' = ProviderForceFlush(ff_meter, ff_timeout)
    /\ IF ff_meter_result' = "raise"
       THEN ff_pc' = "done" /\ ff_result' = "raised"
       ELSE ff_pc' = "tracer" /\ ff_result' = ff_result
    /\ UNCHANGED <<ff_timeout, ff_meter, ff_tracer>>

FlushTracerProviderAndMeter ==
    /\ ff_pc = "tracer"
    /\ ff_pc' = "done"
    /\ LET r == ProviderForceFlush(ff_tracer, ff_timeout)
       IN  ff_result' = IF r = "raise" THEN "raised"
                        ELSE IF ff_meter_result = "True" THEN r
                        ELSE "False"
    /\ UNCHANGED <<ff_timeout, ff_meter, ff_tracer, ff_meter_result>>

\* return self._tracer_provider.force_flush(timeout_millis)
FlushTracerProvider ==
    /\ ff_pc = "tracer"
    /\ ff_pc' = "done"
    /\ LET r == ProviderForceFlush(ff_tracer, ff_timeout)
       IN  ff_result' = IF r = "raise" THEN "raised" ELSE r
    /\ UNCHANGED <<ff_timeout, ff_meter, ff_tracer, ff_meter_result>>

FlushFrozen == UNCHANGED <<mainVars, credVars, projVars, useVars, pipeVars, sanVars, exportVars, argVars, exitVars, minVars, installVars, filterVars, rewriteVars, buildVars, tokenVars, initProjVars, lockVars, roundVars, authVars>>

NextFlush ==
    \/ FlushMeterProvider /\ FlushFrozen
    \/ FlushTracerProvider /\ FlushFrozen

SpecFlush == InitFlush /\ [][NextFlush]_vars

\* C16: force_flush(timeout) does not raise when a flush times out, and
\* returns True only if both the meter provider's flush and the tracer
\* provider's flush succeeded within the timeout; a failure or timeout of
\* either is reported as False
C16_TrueOnlyIfBothFlushed ==
    (ff_pc = "done" /\ ~ff_meter.raises /\ ~ff_tracer.raises) =>
        /\ ff_result \in {"True", "False"}
        /\ ff_result = "True" <=>
              (ff_meter.takes <= ff_timeout /\ ff_tracer.takes <= ff_timeout)

\* C16: force_flush(timeout) does not raise when a flush times out, and it
\* returns what the tracer provider's flush returned: True exactly when
\* the tracer provider's flush succeeded within the timeout, whether or not
\* the meter provider's flush did; it raises only when a provider's flush
\* raises
C16_ReturnsTracerFlushResult ==
    ff_pc = "done" =>
        /\ ff_result = "raised" <=> (ff_meter.raises \/ ff_tracer.raises)
        /\ ff_result = "True" <=>
              (~ff_meter.raises /\ ~ff_tracer.raises
                  /\ ff_tracer.takes <= ff_timeout)
        /\ ff_result = "False" <=>
              (~ff_meter.raises /\ ~ff_tracer.raises
                  /\ ff_tracer.takes > ff_timeout)

\* the meter provider's flush timed out, the tracer provider's flush
\* succeeded, and force_flush returned True
C16_Witness ==
    /\ ff_pc = "done"
    /\ ff_meter_result = "False"
    /\ ff_meter.takes > ff_timeout
    /\ ff_tracer.takes <= ff_timeout
    /\ ff_result = "True"

\* ======================================================================
\* sanitize_project_name as a function of its argument
\* ======================================================================

\* the characters of the names that are sanitized: an uppercase letter, a
\* digit, a punctuation mark and a letter outside ASCII
SanitizeChars == {"M", "7", "!", "é"}

\* the names are a word of at most MaxLen characters repeated up to
\* MaxRepeat times, which takes them past the limit of 41 characters
MaxRepeat == 42

SanitizeWords == UNION {[1..n -> SanitizeChars] : n \in 0..MaxLen}

\* the word k times
Repeat(word, k) ==
    [i \in 1..(k * Len(word)) |-> word[((i - 1) % Len(word)) + 1]]

\* the name of the scenario in the documentation of the function's use
MyProject == <<"M", "y", " ", "P", "r", "o", "j", "e", "c", "t", "!", "!">>

SanitizeNames ==
    {Repeat(w, k) : w \in SanitizeWords, k \in 0..MaxRepeat} \cup {MyProject}

InitSanitize ==
    /\ MainIdle
    /\ CredsIdle
    /\ ProjectIdle
    /\ UseIdle
    /\ PipeIdle
    /\ FlushIdle
    /\ ExportIdle
    /\ ArgsIdle
    /\ ExitIdle
    /\ MinDurationIdle
    /\ InstallIdle
    /\ FilterIdle
    /\ RewriteIdle
    /\ BuildIdle
    /\ FromTokenIdle
    /\ InitProjectIdle
    /\ LockIdle
    /\ RoundTripIdle
    /\ AuthIdle
    /\ sn_name \in SanitizeNames
    /\ sn_result = NotSanitized

\* sanitize_project_name(name) returns
Sanitize ==
    /\ sn_result = NotSanitized
    /\ sn_result' = sanitize_project_name(sn_name)
    /\ UNCHANGED sn_name

SanitizeFrozen ==
    UNCHANGED <<mainVars, credVars, projVars, useVars, pipeVars, flushVars,
                exportVars, argVars, exitVars, minVars, installVars, filterVars, rewriteVars, buildVars, tokenVars, initProjVars, lockVars, roundVars, authVars>>

NextSanitize ==
    \/ Sanitize /\ SanitizeFrozen

SpecSanitize == InitSanitize /\ [][NextSanitize]_vars

\* the ASCII letters and digits of a name, in order
AsciiAlnumOf(name) == SelectSeq(name, LAMBDA ch : IsAlnum(ch))

\* C17: sanitize_project_name removes every character that is not an ASCII
\* letter or digit, lowercases the rest, keeps at most the first 41
\* characters and returns 'untitled' when nothing is left; the result is
\* never empty, at most 41 characters long and made of a-z and 0-9 only,
\* and 'My Project!!' gives 'myproject'
C17_SanitizeProjectName ==
    sn_result # NotSanitized =>
        LET kept == AsciiAlnumOf(sn_name)
        IN  /\ kept = <<>> => sn_result = Untitled
            /\ kept # <<>> =>
                  /\ Len(sn_result) = IF Len(kept) > 41 THEN 41 ELSE Len(kept)
                  /\ \A i \in 1..Len(sn_result) : sn_result[i] = Lower(kept[i])
            /\ sn_result # <<>>
            /\ Len(sn_result) <= 41
            /\ \A i \in 1..Len(sn_result) : IsLowerAlnum(sn_result[i])
            /\ sn_name = MyProject =>
                  sn_result = <<"m", "y", "p", "r", "o", "j", "e", "c", "t">>

\* a name with more than 41 letters and digits among other characters was
\* cut to 41 lowercase characters
C17_Witness ==
    /\ sn_result # NotSanitized
    /\ Len(AsciiAlnumOf(sn_name)) > 41
    /\ Len(AsciiAlnumOf(sn_name)) < Len(sn_name)
    /\ Len(sn_result) = 41
    /\ sn_result[41] = "m"

\* ======================================================================
\* The remote export chain: BatchSpanProcessor -> RemovePendingSpansExporter
\* -> FallbackSpanExporter(.., FileSpanExporter) -> RetryFewerSpansSpanExporter
\* -> OTLPSpanExporter
\* ======================================================================

\* the real spans of the largest batch
MaxBatch == 4

\* a span of a batch: pending_of is the id of the real span of a pending
\* span, and NoParent for a real span
BatchSpan(span_id, pending_of) == [span_id |-> span_id, pending_of |-> pending_of]

\* the id of the pending span of a real span, in a batch
PendingId(real_id) == real_id + 100

\* the real spans 1..n in order
RealBatch(n) == [i \in 1..n |-> BatchSpan(i, NoParent)]

\* the batches: the real spans 1..n, alone or behind the pending span of
\* span 1 (which is in the batch) or of span n+1 (which is not)
Batches ==
    UNION {{RealBatch(n),
            <<BatchSpan(PendingId(1), 1)>> \o RealBatch(n),
            <<BatchSpan(PendingId(n + 1), n + 1)>> \o RealBatch(n)} :
           n \in 1..MaxBatch}

IdsOf(batch) == {batch[i].span_id : i \in DOMAIN batch}

\* RemovePendingSpansExporter: a pending span whose real span is in the
\* same batch is left out
RemovePendingSpans(batch) ==
    SelectSeq(batch, LAMBDA s : s.pending_of = NoParent
                                 \/ s.pending_of \notin IdsOf(batch))

InitExport ==
    /\ MainIdle
    /\ CredsIdle
    /\ ProjectIdle
    /\ UseIdle
    /\ PipeIdle
    /\ FlushIdle
    /\ SanitizeIdle
    /\ ArgsIdle
    /\ ExitIdle
    /\ MinDurationIdle
    /\ InstallIdle
    /\ FilterIdle
    /\ RewriteIdle
    /\ BuildIdle
    /\ FromTokenIdle
    /\ InitProjectIdle
    /\ LockIdle
    /\ RoundTripIdle
    /\ AuthIdle
    /\ ex_pc = "queued"
    /\ ex_batch \in Batches
    /\ ex_fails \in SUBSET IdsOf(ex_batch)
    /\ ex_stack = <<>>
    /\ ex_failed = FALSE
    /\ ex_result = "not-called"
    /\ ex_remote = [i \in IdsOf(ex_batch) |-> 0]
    /\ ex_file = [i \in IdsOf(ex_batch) |-> 0]

\* the batch after pending-span removal: what FallbackSpanExporter.export
\* is called with
FallbackBatch == RemovePendingSpans(ex_batch)

\* BatchSpanProcessor exports the batch: through the pending-span removal
\* and the fallback exporter it reaches the retry exporter
ProcessorExport ==
    /\ ex_pc = "queued"
    /\ ex_pc' = "retrying"
    /\ ex_stack' = <<FallbackBatch>>
    /\ UNCHANGED <<ex_batch, ex_fails, ex_failed, ex_result, ex_remote, ex_file>>

\* OTLPSpanExporter.export of one (sub)batch succeeds unless the batch
\* holds a span the network fails on
NetworkExport(batch) ==
    IF IdsOf(batch) \cap ex_fails = {} THEN "SUCCESS" ELSE "FAILURE"

\* RetryFewerSpansSpanExporter tries the next (sub)batch: exported, or
\* split in halves that are tried in turn, or failed when it is one span
Attempt ==
    /\ ex_pc = "retrying"
    /\ ex_stack # <<>>
    /\ LET batch == Head(ex_stack)
           half == Len(batch) \div 2
       IN  IF NetworkExport(batch) = "SUCCESS"
           THEN /\ ex_remote' = [i \in DOMAIN ex_remote |->
                                   IF i \in IdsOf(batch) THEN ex_remote[i] + 1
                                   ELSE ex_remote[i]]
                /\ ex_stack' = Tail(ex_stack)
                /\ UNCHANGED ex_failed
           ELSE IF Len(batch) = 1
           THEN /\ ex_failed' = TRUE
                /\ ex_stack' = Tail(ex_stack)
                /\ UNCHANGED ex_remote
           ELSE /\ ex_stack' = <<SubSeq(batch, 1, half),
                                 SubSeq(batch, half + 1, Len(batch))>>
                                \o Tail(ex_stack)
                /\ UNCHANGED <<ex_remote, ex_failed>>
    /\ UNCHANGED <<ex_pc, ex_batch, ex_fails, ex_result, ex_file>>

\* RetryFewerSpansSpanExporter.export returns one result for the batch
RetryReturns ==
    /\ ex_pc = "retrying"
    /\ ex_stack = <<>>
    /\ ex_pc' = "returned"
    /\ ex_result' = IF ex_failed THEN "FAILURE" ELSE "SUCCESS"
    /\ UNCHANGED <<ex_batch, ex_fails, ex_stack, ex_failed, ex_remote, ex_file>>

\* FallbackSpanExporter.export: when the wrapped exporter did not succeed,
\* the batch it was called with goes to the FileSpanExporter
Fallback ==
    /\ ex_pc = "returned"
    /\ ex_pc' = "done"
    /\ ex_file' = IF ex_result = "SUCCESS" THEN ex_file
                  ELSE [i \in DOMAIN ex_file |->
                           IF i \in IdsOf(FallbackBatch) THEN ex_file[i] + 1
                           ELSE ex_file[i]]
    /\ UNCHANGED <<ex_batch, ex_fails, ex_stack, ex_failed, ex_result, ex_remote>>

ExportFrozen ==
    UNCHANGED <<mainVars, credVars, projVars, useVars, pipeVars, flushVars,
                sanVars, argVars, exitVars, minVars, installVars, filterVars, rewriteVars, buildVars, tokenVars, initProjVars, lockVars, roundVars, authVars>>

NextExport ==
    \/ ProcessorExport /\ ExportFrozen
    \/ Attempt /\ ExportFrozen
    \/ RetryReturns /\ ExportFrozen
    \/ Fallback /\ ExportFrozen

SpecExport == InitExport /\ [][NextExport]_vars

Registered ==
    {pl_processors[i].name : i \in DOMAIN pl_processors} \ {"pending"}

\* the real spans that have ended
Ended == {id \in Started : pl_spans[id].end_time # 0}

\* how often a span is in a sequence of spans
TimesIn(seq, id) == Cardinality({i \in DOMAIN seq : seq[i].span_id = id})

\* C19: with tail sampling configured, a sampler that decided KEEP when
\* the root ended has forwarded every span of the trace that has ended to
\* the wrapped processor, once each, whatever the order the spans ended
\* in; a sampler that decided DROP has forwarded nothing, also of the
\* descendants that ended after the root; until the root ends every ended
\* span is held in the buffer
C19_KeepForwardsAllDropNone ==
    (pl_pc = "configured" /\ pl_settings.tail_sampling) =>
        \A n \in Registered :
            LET t == pl_st.tail[n]
            IN  /\ Started # {} => t.state \in {"OPEN", "KEEP", "DROP"}
                /\ t.state = "KEEP" =>
                      /\ \A id \in Ended : TimesIn(pl_st.received[n], id) = 1
                      /\ t.buffer = <<>>
                /\ t.state = "DROP" =>
                      pl_st.received[n] = <<>> /\ t.buffer = <<>>
                /\ t.state = "OPEN" =>
                      /\ pl_st.received[n] = <<>>
                      /\ \A id \in Ended : TimesIn(t.buffer, id) = 1

\* a descendant ended before the root and was buffered; when the root
\* ended one sampler kept the trace and forwarded both spans, another
\* dropped it and forwarded nothing
C19_Witness ==
    /\ pl_pc = "configured"
    /\ pl_settings.tail_sampling
    /\ \E id \in Ended :
          /\ pl_spans[id].parent # NoParent
          /\ pl_spans[id].end_time < pl_spans[pl_spans[id].parent].end_time
    /\ \E n, m \in Registered :
          /\ pl_st.tail[n].state = "KEEP"
          /\ \A id \in Started : TimesIn(pl_st.received[n], id) = 1
          /\ pl_st.tail[m].state = "DROP"
          /\ pl_st.received[m] = <<>>

\* ------------------------------------------------------------------------
\* logfire.configure(): the checks on its arguments (config.py 222-257) and
\* the check of _load_configuration (config.py 394-399)
\* ------------------------------------------------------------------------

\* the interpreters: sys.version_info[:2] is (3, minor)
PythonMinors == {8, 12}

\* sys.version_info[:2] <= (3, 8)
OldPythonMinor == 8

\* the arguments configure() checks; "empty" is an empty sequence of patterns
ConfigureCalls ==
    [processors             : {"None", "processors"},
     metric_readers         : {"None", "readers"},
     collect_system_metrics : {"None", "False", "True"},
     scrubbing              : {"None", "False", "ScrubbingOptions"},
     scrubbing_callback     : {"None", "callback"},
     scrubbing_patterns     : {"None", "empty", "patterns"},
     inspect_arguments      : {"None", "False", "True"}]

\* bool(value) of an argument
ArgTruthy(value) == value \notin {"None", "False", "empty"}

\* the checks without the one on scrubbing
ArgumentErrorIgnoringScrubbing(a) ==
    IF a.processors # "None" THEN "ValueError"
    ELSE IF a.metric_readers # "None" THEN "ValueError"
    ELSE IF a.collect_system_metrics = "False" THEN "ValueError"
    ELSE IF a.collect_system_metrics # "None" THEN "ValueError"
    ELSE "None"

\* config.py 222-257: what the checks before GLOBAL_CONFIG.configure raise
ArgumentError(a) ==
    IF a.processors # "None" THEN "ValueError"
    ELSE IF a.metric_readers # "None" THEN "ValueError"
    ELSE IF a.collect_system_metrics = "False" THEN "ValueError"
    ELSE IF a.collect_system_metrics # "None" THEN "ValueError"
    ELSE IF /\ ArgTruthy(a.scrubbing_callback) \/ ArgTruthy(a.scrubbing_patterns)
            /\ a.scrubbing # "None"
         THEN "ValueError"
    ELSE "None"

\* config.py 246-257: the scrubbing handed to GLOBAL_CONFIG.configure
ScrubbingArgument(a) ==
    IF ArgTruthy(a.scrubbing_callback) \/ ArgTruthy(a.scrubbing_patterns)
    THEN "ScrubbingOptions"
    ELSE a.scrubbing

\* param_manager.load_param('inspect_arguments', inspect_arguments)
LoadInspectArguments(env, a) ==
    IF a.inspect_arguments = "None" THEN env.inspect_default
    ELSE a.inspect_arguments

\* config.py 396: self.inspect_arguments and sys.version_info[:2] <= (3, 8)
InspectUnsupported(env, a) ==
    LoadInspectArguments(env, a) = "True" /\ env.minor <= OldPythonMinor

InitArgs ==
    /\ MainIdle
    /\ CredsIdle
    /\ ProjectIdle
    /\ UseIdle
    /\ PipeIdle
    /\ FlushIdle
    /\ SanitizeIdle
    /\ ExportIdle
    /\ ExitIdle
    /\ MinDurationIdle
    /\ InstallIdle
    /\ FilterIdle
    /\ RewriteIdle
    /\ BuildIdle
    /\ FromTokenIdle
    /\ InitProjectIdle
    /\ LockIdle
    /\ RoundTripIdle
    /\ AuthIdle
    /\ ar_pc = "ready"
    /\ ar_env \in [minor : PythonMinors, inspect_default : {"False", "True"}]
    /\ ar_call \in {c \in ConfigureCalls : \A k \in DOMAIN c : c[k] = "None"}
    /\ ar_global = [initialized |-> FALSE,
                    inspect_arguments |-> ar_env.inspect_default,
                    scrubbing |-> "None", providers |-> "NoOp"]
    /\ ar_raised = "None"

\* logfire.configure(**a) with send_to_logfire=False: the checks, then
\* GLOBAL_CONFIG.configure: _initialized = False, _load_configuration (which
\* assigns inspect_arguments before it raises and scrubbing after), initialize()
ConfigureCall(a) ==
    /\ ar_pc = "ready"
    /\ ar_pc' = "called"
    /\ ar_call' = a
    /\ UNCHANGED ar_env
    /\ IF ArgumentError(a) # "None"
       THEN /\ ar_raised' = ArgumentError(a)
            /\ UNCHANGED ar_global
       ELSE IF InspectUnsupported(ar_env, a)
       THEN /\ ar_raised' = "LogfireConfigError"
            /\ ar_global' = [ar_global EXCEPT
                                !.initialized = FALSE,
                                !.inspect_arguments = LoadInspectArguments(ar_env, a)]
       ELSE /\ ar_raised' = "None"
            /\ ar_global' = [initialized |-> TRUE,
                             inspect_arguments |-> LoadInspectArguments(ar_env, a),
                             scrubbing |-> ScrubbingArgument(a),
                             providers |-> "SDK"]

\* the caller goes on after the call returned or raised
AfterConfigureCall ==
    /\ ar_pc = "called"
    /\ ar_pc' = "ready"
    /\ ar_call' = [k \in DOMAIN ar_call |-> "None"]
    /\ ar_raised' = "None"
    /\ UNCHANGED <<ar_env, ar_global>>

ArgsFrozen ==
    UNCHANGED <<mainVars, credVars, projVars, useVars, pipeVars, flushVars,
                sanVars, exportVars, exitVars, minVars, installVars, filterVars, rewriteVars, buildVars, tokenVars, initProjVars, lockVars, roundVars, authVars>>

NextArgs ==
    \/ \E a \in ConfigureCalls : ConfigureCall(a) /\ ArgsFrozen
    \/ AfterConfigureCall /\ ArgsFrozen

SpecArgs == InitArgs /\ [][NextArgs]_vars

\* a call that passes processors, metric_readers or collect_system_metrics
PassesRemoved(a) ==
    \/ a.processors # "None"
    \/ a.metric_readers # "None"
    \/ a.collect_system_metrics # "None"

\* C21 as stated: a call that passes processors, metric_readers or
\* collect_system_metrics, or scrubbing together with scrubbing_callback or
\* scrubbing_patterns (any value other than None), raises ValueError and
\* leaves GLOBAL_CONFIG as it was; a valid call that enables inspect_arguments
\* on Python 3.8 or older raises LogfireConfigError
C21_PassedTogetherRaises ==
    [][ar_pc' = "called" =>
        /\ (\/ PassesRemoved(ar_call')
            \/ /\ ar_call'.scrubbing # "None"
               /\ \/ ar_call'.scrubbing_callback # "None"
                  \/ ar_call'.scrubbing_patterns # "None")
           => (ar_raised' = "ValueError" /\ ar_global' = ar_global)
        /\ (ArgumentError(ar_call') = "None" /\ InspectUnsupported(ar_env, ar_call'))
           => ar_raised' = "LogfireConfigError"]_vars

\* C21, amended: the same with scrubbing passed together with a
\* scrubbing_callback or a non-empty scrubbing_patterns (a true value)
C21_InvalidArgumentsRaiseEarly ==
    [][ar_pc' = "called" =>
        /\ (\/ PassesRemoved(ar_call')
            \/ /\ ar_call'.scrubbing # "None"
               /\ \/ ArgTruthy(ar_call'.scrubbing_callback)
                  \/ ArgTruthy(ar_call'.scrubbing_patterns))
           => (ar_raised' = "ValueError" /\ ar_global' = ar_global)
        /\ (ArgumentError(ar_call') = "None" /\ InspectUnsupported(ar_env, ar_call'))
           => ar_raised' = "LogfireConfigError"]_vars

\* an initialized GLOBAL_CONFIG after a call that passed scrubbing together
\* with scrubbing_patterns and nothing else, and raised ValueError
C21_Witness ==
    /\ ar_pc = "called"
    /\ ar_raised = "ValueError"
    /\ ~PassesRemoved(ar_call)
    /\ ar_call.scrubbing = "ScrubbingOptions"
    /\ ar_call.scrubbing_patterns = "patterns"
    /\ ar_global.initialized
    /\ ar_global.providers = "SDK"

\* ------------------------------------------------------------------------
\* Open spans at process exit (config.py 90, 616-622, 768-775)
\* ------------------------------------------------------------------------

\* the no-op provider a LogfireConfig starts with (config.py 499)
NoOpTracerProvider == 0

\* an atexit callback: the provider's own shutdown, or _exit_open_spans
ShutdownOnExit(p) == [callback |-> "shutdown", provider |-> p]

ExitOpenSpans(p) == [callback |-> "_exit_open_spans", provider |-> p]

InitExit ==
    /\ MainIdle
    /\ CredsIdle
    /\ ProjectIdle
    /\ UseIdle
    /\ PipeIdle
    /\ FlushIdle
    /\ SanitizeIdle
    /\ ExportIdle
    /\ ArgsIdle
    /\ MinDurationIdle
    /\ InstallIdle
    /\ FilterIdle
    /\ RewriteIdle
    /\ BuildIdle
    /\ FromTokenIdle
    /\ InitProjectIdle
    /\ LockIdle
    /\ RoundTripIdle
    /\ AuthIdle
    /\ xt_pc = "running"
    /\ xt_atexit = <<>>
    /\ xt_provider = NoOpTracerProvider
    /\ xt_built = 0
    /\ xt_down = {}
    /\ xt_open = <<>>
    /\ xt_closed = {}

\* span.__exit__: the span ends on the provider that started it and leaves
\* OPEN_SPANS
Close(spans, by, down) ==
    {[span |-> s, provider |-> xt_open[s], by |-> by,
      provider_down |-> xt_open[s] \in down] : s \in spans}

\* _initialize: SDKTracerProvider(...) registers its shutdown with atexit,
\* the provider in use is shut down and replaced (621-622), and when nothing
\* raised on the way _exit_open_spans is registered (768). completes = FALSE
\* is an _initialize that raises between the two (LogfireConfigError from the
\* credentials, an exception of the meter provider's shutdown at 758)
ExitConfigure(completes) ==
    /\ xt_pc = "running"
    /\ xt_built < MaxConfigures
    /\ xt_built' = xt_built + 1
    /\ xt_provider' = xt_built + 1
    /\ xt_down' = IF xt_provider = NoOpTracerProvider THEN xt_down
                  ELSE xt_down \cup {xt_provider}
    /\ xt_atexit' = IF completes
                    THEN xt_atexit \o <<ShutdownOnExit(xt_built + 1),
                                        ExitOpenSpans(xt_built + 1)>>
                    ELSE Append(xt_atexit, ShutdownOnExit(xt_built + 1))
    /\ UNCHANGED <<xt_pc, xt_open, xt_closed>>

\* a span is entered: the tracer of the provider in use starts it and it is
\* added to OPEN_SPANS
OpenSpan ==
    /\ xt_pc = "running"
    /\ Len(xt_open) < MaxSpans
    /\ xt_open' = Append(xt_open, xt_provider)
    /\ UNCHANGED <<xt_pc, xt_atexit, xt_provider, xt_built, xt_down, xt_closed>>

StillOpen == {s \in DOMAIN xt_open : \A c \in xt_closed : c.span # s}

\* the program leaves the span's with block
CloseSpan(s) ==
    /\ xt_pc = "running"
    /\ s \in StillOpen
    /\ xt_closed' = xt_closed \cup Close({s}, "program", xt_down)
    /\ UNCHANGED <<xt_pc, xt_atexit, xt_provider, xt_built, xt_down, xt_open>>

\* the interpreter exits
ProcessExit ==
    /\ xt_pc = "running"
    /\ xt_pc' = IF xt_atexit = <<>> THEN "exited" ELSE "exiting"
    /\ UNCHANGED <<xt_atexit, xt_provider, xt_built, xt_down, xt_open, xt_closed>>

\* atexit runs the callbacks last registered first
RunExitCallback ==
    /\ xt_pc = "exiting"
    /\ LET last == xt_atexit[Len(xt_atexit)]
           rest == SubSeq(xt_atexit, 1, Len(xt_atexit) - 1)
       IN /\ xt_atexit' = rest
          /\ xt_pc' = IF rest = <<>> THEN "exited" ELSE "exiting"
          /\ IF last.callback = "shutdown"
             THEN /\ xt_down' = xt_down \cup {last.provider}
                  /\ UNCHANGED xt_closed
             ELSE /\ xt_closed' = xt_closed \cup Close(StillOpen, "_exit_open_spans", xt_down)
                  /\ UNCHANGED xt_down
    /\ UNCHANGED <<xt_provider, xt_built, xt_open>>

ExitFrozen ==
    UNCHANGED <<mainVars, credVars, projVars, useVars, pipeVars, flushVars,
                sanVars, exportVars, argVars, minVars, installVars, filterVars, rewriteVars, buildVars, tokenVars, initProjVars, lockVars, roundVars, authVars>>

NextExit ==
    \/ \E completes \in BOOLEAN : ExitConfigure(completes) /\ ExitFrozen
    \/ OpenSpan /\ ExitFrozen
    \/ \E s \in DOMAIN xt_open : CloseSpan(s) /\ ExitFrozen
    \/ ProcessExit /\ ExitFrozen
    \/ RunExitCallback /\ ExitFrozen

SpecExit == InitExit /\ [][NextExit]_vars

\* C22: after a configure(), when the process has exited every span was
\* closed; a span the program did not close itself was closed by
\* _exit_open_spans, during the exit and not before, and against a provider
\* that was not shut down yet
C22_OpenSpansClosedAtExitOnLiveProvider ==
    /\ (xt_pc = "exited" /\ xt_built > 0) => StillOpen = {}
    /\ \A c \in xt_closed :
          c.by # "program" =>
              /\ c.by = "_exit_open_spans"
              /\ xt_pc \in {"exiting", "exited"}
              /\ ~c.provider_down

\* configure(), a span is opened, configure() again, then the process exits
\* with the span still open: _exit_open_spans closes the span on the first
\* provider, which the second configure() shut down
C22_FailingInput ==
    /\ xt_pc = "exited"
    /\ xt_built = 2
    /\ \E c \in xt_closed :
          /\ c.by = "_exit_open_spans"
          /\ c.provider = 1
          /\ c.provider_down
    /\ \A c \in xt_closed : c.by = "_exit_open_spans"

\* ------------------------------------------------------------------------
\* install_auto_tracing(..., min_duration=...) (test_auto_trace.py 462-513)
\* ------------------------------------------------------------------------

MaxCalls == 3

\* the min_duration of the installation, in clock ticks
MinDuration == 2

MaxClock == MaxCalls * MinDuration

\* the traced functions of the module; each may call the other
TracedFunctions == {"func1", "func2"}

InitMinDuration ==
    /\ MainIdle
    /\ CredsIdle
    /\ ProjectIdle
    /\ UseIdle
    /\ PipeIdle
    /\ FlushIdle
    /\ SanitizeIdle
    /\ ExportIdle
    /\ ArgsIdle
    /\ ExitIdle
    /\ InstallIdle
    /\ FilterIdle
    /\ RewriteIdle
    /\ BuildIdle
    /\ FromTokenIdle
    /\ InitProjectIdle
    /\ LockIdle
    /\ RoundTripIdle
    /\ AuthIdle
    /\ mt_factory = [f \in TracedFunctions |-> "measure"]
    /\ mt_stack = <<>>
    /\ mt_clock = 0
    /\ mt_calls = 0
    /\ mt_long = {}
    /\ mt_done = {}

\* the measurement switches the function to spans whatever it measured
MeasuredSwitchingAlways(factory, f, duration) ==
    [factory EXCEPT ![f] = "span"]

\* a measured call returns: a call that lasted at least min_duration makes
\* the later calls of the function open a span
Measured(factory, f, duration) ==
    IF duration >= MinDuration THEN [factory EXCEPT ![f] = "span"] ELSE factory

\* a traced function is called, from the program or from the call in
\* progress: it enters what the function's factory gives at that moment
EnterCall(f) ==
    /\ mt_calls < MaxCalls
    /\ mt_calls' = mt_calls + 1
    /\ mt_stack' = Append(mt_stack,
           [func |-> f, start |-> mt_clock, mode |-> mt_factory[f],
            long_before |-> f \in mt_long,
            caller |-> IF mt_stack = <<>> THEN "program"
                       ELSE mt_stack[Len(mt_stack)].mode])
    /\ UNCHANGED <<mt_factory, mt_clock, mt_long, mt_done>>

\* time passes
Tick ==
    /\ mt_clock < MaxClock
    /\ mt_clock' = mt_clock + 1
    /\ UNCHANGED <<mt_factory, mt_stack, mt_calls, mt_long, mt_done>>

\* the innermost call returns: a span call emits its span, a measured call
\* is measured
ReturnCall ==
    /\ mt_stack # <<>>
    /\ LET frame == mt_stack[Len(mt_stack)]
           duration == mt_clock - frame.start
       IN /\ mt_stack' = SubSeq(mt_stack, 1, Len(mt_stack) - 1)
          /\ mt_done' = mt_done \cup
                 {[func |-> frame.func, emitted |-> frame.mode = "span",
                   long_before |-> frame.long_before, caller |-> frame.caller]}
          /\ IF frame.mode = "measure"
             THEN /\ mt_factory' = Measured(mt_factory, frame.func, duration)
                  /\ mt_long' = IF duration >= MinDuration
                                THEN mt_long \cup {frame.func} ELSE mt_long
             ELSE UNCHANGED <<mt_factory, mt_long>>
    /\ UNCHANGED <<mt_clock, mt_calls>>

MinDurationFrozen ==
    UNCHANGED <<mainVars, credVars, projVars, useVars, pipeVars, flushVars,
                sanVars, exportVars, argVars, exitVars, installVars, filterVars, rewriteVars, buildVars, tokenVars, initProjVars, lockVars, roundVars, authVars>>

NextMinDuration ==
    \/ \E f \in TracedFunctions : EnterCall(f) /\ MinDurationFrozen
    \/ Tick /\ MinDurationFrozen
    \/ ReturnCall /\ MinDurationFrozen

SpecMinDuration == InitMinDuration /\ [][NextMinDuration]_vars

\* C23: a call of a traced function emits a span exactly when, before the
\* call began, a call of that function had been measured to last at least
\* min_duration; so a function never measured that long never emits a span,
\* whatever its caller does
C23_SpanOnlyAfterLongMeasuredCall ==
    /\ \A d \in mt_done : d.emitted <=> d.long_before
    /\ \A f \in TracedFunctions : f \notin mt_long =>
           \A d \in mt_done : d.func = f => ~d.emitted

\* func1 emitted a span on a call after a long one, and func2, called from a
\* call of func1 that emitted a span, stayed short and emitted none
C23_Witness ==
    /\ mt_stack = <<>>
    /\ mt_long = {"func1"}
    /\ \E d \in mt_done : d.func = "func1" /\ d.emitted
    /\ \E d \in mt_done : d.func = "func2" /\ ~d.emitted /\ d.caller = "span"

\* ------------------------------------------------------------------------
\* The module filter and install_auto_tracing (test_auto_trace.py 20-36,
\* 164-198, 345-364)
\* ------------------------------------------------------------------------

MaxNameLen == 4

MaxInstalls == 2

\* the characters of module names
NameChars == {"t", "x", "_", "."}

\* a dotted name: no empty part
IsDottedName(name) ==
    /\ name # <<>>
    /\ name[1] # "."
    /\ name[Len(name)] # "."
    /\ \A i \in 1..(Len(name) - 1) : ~(name[i] = "." /\ name[i + 1] = ".")

ModuleNames ==
    {name \in UNION {[1..n -> NameChars] : n \in 1..MaxNameLen} : IsDottedName(name)}

\* a prefix with a repetition: 'x+', 'tx+', ...
IsPattern(p) ==
    /\ \E i \in 1..Len(p) : p[i] = "+"
    /\ p[1] # "+"
    /\ \A i \in 1..(Len(p) - 1) : ~(p[i] = "+" /\ p[i + 1] = "+")

\* the prefixes a filter is built from: module names and patterns
Prefixes ==
    {p \in ModuleNames : Len(p) < MaxNameLen}
    \cup {p \in UNION {[1..n -> {"t", "x", "+"}] : n \in 2..(MaxNameLen - 1)} : IsPattern(p)}

\* re.match of the pattern from its i-th character on, at `pos` characters
\* into the name: where the match can end
RECURSIVE MatchFrom(_, _, _, _)
MatchFrom(pattern, i, name, pos) ==
    IF i > Len(pattern) THEN {pos}
    ELSE IF i < Len(pattern) /\ pattern[i + 1] = "+"
    THEN UNION {MatchFrom(pattern, i + 2, name, pos + k) :
                    k \in {n \in 1..(Len(name) - pos) :
                              \A j \in 1..n : name[pos + j] = pattern[i]}}
    ELSE IF pos < Len(name) /\ name[pos + 1] = pattern[i]
    THEN MatchFrom(pattern, i + 1, name, pos + 1)
    ELSE {}

\* the prefix matched at the start of the name, wherever it ends
parts_start_with_unbounded(name, prefix) ==
    MatchFrom(prefix, 1, name, 0) # {}

\* AutoTraceModule(name, ...).parts_start_with(prefix): the prefix matched at
\* the start of the name and followed by a dot or the end of the name
parts_start_with(name, prefix) ==
    \E e \in MatchFrom(prefix, 1, name, 0) :
        e = Len(name) \/ name[e + 1] = "."

\* sys.meta_path before auto-tracing: the interpreter's finders
BuiltinFinders == <<"BuiltinImporter", "PathFinder">>

\* a LogfireFinder with its modules_filter
LogfireFinder(prefix) == <<"LogfireFinder", prefix>>

\* the modules argument and check_imported_modules of a call, and whether
\* warnings are turned into errors (as under pytest)
InstallCalls ==
    [modules : {<<"t">>, <<"t", ".", "x">>, <<"x", "+">>},
     check_imported_modules : {"default", "error", "warn", "ignore", "other"},
     warnings_as_errors : BOOLEAN]

\* the imported modules
ImportedModules ==
    {{}, {<<"t">>}, {<<"t">>, <<"t", ".", "x">>}, {<<"t", "_", "x">>, <<"x", "x">>}}

InitInstall ==
    /\ MainIdle
    /\ CredsIdle
    /\ ProjectIdle
    /\ UseIdle
    /\ PipeIdle
    /\ FlushIdle
    /\ SanitizeIdle
    /\ ExportIdle
    /\ ArgsIdle
    /\ ExitIdle
    /\ MinDurationIdle
    /\ FilterIdle
    /\ RewriteIdle
    /\ BuildIdle
    /\ FromTokenIdle
    /\ InitProjectIdle
    /\ LockIdle
    /\ RoundTripIdle
    /\ AuthIdle
    /\ ia_pc = "ready"
    /\ ia_modules \in ImportedModules
    /\ ia_meta_path = BuiltinFinders
    /\ ia_call = <<>>
    /\ ia_raised = "None"
    /\ ia_warned = FALSE

\* an imported module matches the filter
AlreadyImported(modules, prefix) ==
    \E m \in modules : parts_start_with(m, prefix)

\* the check goes on to the installation after a warning
CheckImportedModulesWarnOnly(c, modules) ==
    IF c.check_imported_modules \notin {"default", "error", "warn", "ignore"}
    THEN "ValueError"
    ELSE "None"

\* what the check of the imported modules raises
CheckImportedModules(c, modules) ==
    IF c.check_imported_modules \notin {"default", "error", "warn", "ignore"}
    THEN "ValueError"
    ELSE IF c.check_imported_modules = "ignore" \/ ~AlreadyImported(modules, c.modules)
    THEN "None"
    ELSE IF c.check_imported_modules \in {"default", "error"}
    THEN "AutoTraceModuleAlreadyImportedException"
    ELSE IF c.warnings_as_errors
    THEN "AutoTraceModuleAlreadyImportedWarning"
    ELSE "None"

\* install_auto_tracing(modules, check_imported_modules=...): the check,
\* then a new LogfireFinder at the front of sys.meta_path
InstallAutoTracing(c) ==
    /\ ia_pc = "ready"
    /\ Len(ia_meta_path) < Len(BuiltinFinders) + MaxInstalls
    /\ ia_pc' = "called"
    /\ ia_call' = c
    /\ ia_raised' = CheckImportedModules(c, ia_modules)
    /\ ia_warned' = (/\ c.check_imported_modules = "warn"
                     /\ AlreadyImported(ia_modules, c.modules))
    /\ ia_meta_path' = IF CheckImportedModules(c, ia_modules) = "None"
                       THEN <<LogfireFinder(c.modules)>> \o ia_meta_path
                       ELSE ia_meta_path
    /\ UNCHANGED ia_modules

\* the caller goes on after the call returned or raised
AfterInstall ==
    /\ ia_pc = "called"
    /\ ia_pc' = "ready"
    /\ ia_call' = <<>>
    /\ ia_raised' = "None"
    /\ ia_warned' = FALSE
    /\ UNCHANGED <<ia_modules, ia_meta_path>>

InstallFrozen ==
    UNCHANGED <<mainVars, credVars, projVars, useVars, pipeVars, flushVars,
                sanVars, exportVars, argVars, exitVars, minVars, filterVars, rewriteVars, buildVars, tokenVars, initProjVars, lockVars, roundVars, authVars>>

NextInstall ==
    \/ \E c \in InstallCalls : InstallAutoTracing(c) /\ InstallFrozen
    \/ AfterInstall /\ InstallFrozen

SpecInstall == InitInstall /\ [][NextInstall]_vars

InitFilter ==
    /\ MainIdle
    /\ CredsIdle
    /\ ProjectIdle
    /\ UseIdle
    /\ PipeIdle
    /\ FlushIdle
    /\ SanitizeIdle
    /\ ExportIdle
    /\ ArgsIdle
    /\ ExitIdle
    /\ MinDurationIdle
    /\ InstallIdle
    /\ RewriteIdle
    /\ BuildIdle
    /\ FromTokenIdle
    /\ InitProjectIdle
    /\ LockIdle
    /\ RoundTripIdle
    /\ AuthIdle
    /\ fl_prefix \in Prefixes
    /\ fl_name \in ModuleNames
    /\ fl_result = "not-called"

\* the filter is asked about the module
ModulesFilter ==
    /\ fl_result = "not-called"
    /\ fl_result' = IF parts_start_with(fl_name, fl_prefix) THEN "match" ELSE "no-match"
    /\ UNCHANGED <<fl_prefix, fl_name>>

FilterFrozen ==
    UNCHANGED <<mainVars, credVars, projVars, useVars, pipeVars, flushVars,
                sanVars, exportVars, argVars, exitVars, minVars, installVars, rewriteVars, buildVars, tokenVars, initProjVars, lockVars, roundVars, authVars>>

NextFilter == ModulesFilter /\ FilterFrozen

SpecFilter == InitFilter /\ [][NextFilter]_vars

\* the positions of the dots of a name, with 0 and Len + 1 at the ends
DotsOf(name) ==
    {0, Len(name) + 1} \cup {i \in 1..Len(name) : name[i] = "."}

\* the parts of a dotted name, as the set of [first, last] index pairs
PartsOf(name) ==
    {<<a + 1, b - 1>> : <<a, b>> \in
        {d \in DotsOf(name) \X DotsOf(name) :
            d[1] < d[2] /\ \A k \in DotsOf(name) : ~(d[1] < k /\ k < d[2])}}

\* the name up to the end of one of its parts
WholePartPrefixesOf(name) ==
    {SubSeq(name, 1, part[2]) : part \in PartsOf(name)}

\* the pattern matches the whole of the text: 'x+' one or more x
FullMatch(pattern, text) ==
    IF IsPattern(pattern)
    THEN Len(text) \in MatchFrom(pattern, 1, text, 0)
    ELSE text = pattern

MaxNodes == 3

\* decorator lists as in no_auto_trace_sample, a decorator as its dotted name
DecoratorLists ==
    {<<>>,
     <<<<"str">>, <<"no_auto_trace">>, <<"str">>>>,
     <<<<"logfire", "no_auto_trace">>, <<"str">>>>,
     <<<<"other">>>>,
     <<<<"str">>, <<"other", "no_auto_trace">>>>}

\* the module itself, the parent of the top-level definitions
ModuleNode == 0

\* a definition: def or class, its decorators, the definition it is in
Definitions ==
    [kind : {"def", "class"}, decorators : DecoratorLists,
     parent : ModuleNode..(MaxNodes - 1)]

\* sources: each definition comes after the definition that contains it
Sources ==
    UNION {{t \in [1..n -> Definitions] : \A i \in 1..n : t[i].parent < i} :
              n \in 1..MaxNodes}

\* a decorator whose last name is no_auto_trace
IsNoAutoTraceByAttribute(decorator) ==
    decorator[Len(decorator)] = "no_auto_trace"

\* the decorator is the name no_auto_trace or the attribute
\* logfire.no_auto_trace
IsNoAutoTrace(decorator) ==
    \/ decorator = <<"no_auto_trace">>
    \/ decorator = <<"logfire", "no_auto_trace">>

HasNoAutoTrace(node) ==
    \E i \in 1..Len(node.decorators) : IsNoAutoTrace(node.decorators[i])

RECURSIVE Visit(_, _), VisitBody(_, _, _)
\* the visitor on a definition: one with no_auto_trace is left as it is;
\* otherwise its body is visited and then a function gets its span
Visit(tree, i) ==
    IF HasNoAutoTrace(tree[i]) THEN <<>>
    ELSE VisitBody(tree, i, i + 1)
         \o (IF tree[i].kind = "def" THEN <<i>> ELSE <<>>)

\* the visitor on the definitions directly inside `parent`, from the j-th on
VisitBody(tree, parent, j) ==
    IF j > Len(tree) THEN <<>>
    ELSE (IF tree[j].parent = parent THEN Visit(tree, j) ELSE <<>>)
         \o VisitBody(tree, parent, j + 1)

InitRewrite ==
    /\ MainIdle
    /\ CredsIdle
    /\ ProjectIdle
    /\ UseIdle
    /\ PipeIdle
    /\ FlushIdle
    /\ SanitizeIdle
    /\ ExportIdle
    /\ ArgsIdle
    /\ ExitIdle
    /\ MinDurationIdle
    /\ InstallIdle
    /\ FilterIdle
    /\ BuildIdle
    /\ FromTokenIdle
    /\ InitProjectIdle
    /\ LockIdle
    /\ RoundTripIdle
    /\ AuthIdle
    /\ rw_tree \in Sources
    /\ rw_done = FALSE
    /\ rw_factories = <<>>

\* rewrite_ast(source, ..., context_factories, min_duration=0)
RewriteAst ==
    /\ ~rw_done
    /\ rw_done' = TRUE
    /\ rw_factories' = VisitBody(rw_tree, ModuleNode, 1)
    /\ UNCHANGED rw_tree

RewriteFrozen ==
    UNCHANGED <<mainVars, credVars, projVars, useVars, pipeVars, flushVars,
                sanVars, exportVars, argVars, exitVars, minVars, installVars,
                filterVars, buildVars, tokenVars, initProjVars, lockVars, roundVars, authVars>>

NextRewrite == RewriteAst /\ RewriteFrozen

SpecRewrite == InitRewrite /\ [][NextRewrite]_vars

\* the definition and the definitions it is nested in, innermost first
RECURSIVE Enclosing(_, _)
Enclosing(tree, i) ==
    IF i = ModuleNode THEN {} ELSE {i} \cup Enclosing(tree, tree[i].parent)

\* the definition carries @no_auto_trace or @logfire.no_auto_trace anywhere
\* in its decorator list
Excluded(node) ==
    \E i \in 1..Len(node.decorators) :
        node.decorators[i] \in {<<"no_auto_trace">>, <<"logfire", "no_auto_trace">>}

\* C26: after the rewrite a function is given a span exactly once when
\* neither it nor a function or class it is nested in, at any depth, is
\* decorated with no_auto_trace or logfire.no_auto_trace, and no span
\* otherwise; classes get none; decorators of another name exclude nothing
C26_NoAutoTraceExcludesNested ==
    rw_done =>
        \A i \in 1..Len(rw_tree) :
            Cardinality({k \in 1..Len(rw_factories) : rw_factories[k] = i})
                = IF /\ rw_tree[i].kind = "def"
                     /\ \A a \in Enclosing(rw_tree, i) : ~Excluded(rw_tree[a])
                  THEN 1 ELSE 0

\* a class decorated @logfire.no_auto_trace with a method and a function
\* nested in the method: nothing traced; as NotTracedClass in the sample
C26_Witness ==
    /\ rw_done
    /\ Len(rw_tree) = 3
    /\ rw_tree[1].kind = "class"
    /\ rw_tree[1].decorators = <<<<"logfire", "no_auto_trace">>, <<"str">>>>
    /\ rw_tree[2] = [kind |-> "def", decorators |-> <<>>, parent |-> 1]
    /\ rw_tree[3] = [kind |-> "def", decorators |-> <<>>, parent |-> 2]
    /\ rw_factories = <<>>

\* ------------------------------------------------------------------------
\* The sampler and the span processors of the tracer provider
\* (config.py 609-648, 728-740)
\* ------------------------------------------------------------------------

\* trace_sample_rate in tenths: 0, 0.5, 1.0 and 1.5
SampleRates == {0, 5, FullRate, 15}

\* the exporters of additional_span_processors; NoSpanExporter is a
\* processor without a span_exporter attribute
BuildExporters ==
    {"TestExporter", "TestExporterSubclass", "OtherExporter", NoSpanExporter}

BuildSettings ==
    [built : {TRUE}, tail_sampling : BOOLEAN, console : BOOLEAN,
     span_style : {"simple", "indented", "show-parents"},
     trace_sample_rate : SampleRates,
     additional : {<<>>} \cup {<<e>> : e \in BuildExporters}
                         \cup {<<e, f>> : e, f \in BuildExporters},
     send : BOOLEAN, otlp_traces : BOOLEAN]

\* sampler=None
NoSampler == [kind |-> "None", rate |-> NoRate]

\* config.py 610-614: the sampler of the SDK tracer provider
Sampler(s) ==
    IF s.trace_sample_rate < FullRate /\ ~s.tail_sampling
    THEN [kind |-> "ParentBasedTraceIdRatio", rate |-> s.trace_sample_rate]
    ELSE NoSampler

InitBuild ==
    /\ MainIdle
    /\ CredsIdle
    /\ ProjectIdle
    /\ UseIdle
    /\ PipeIdle
    /\ FlushIdle
    /\ SanitizeIdle
    /\ ExportIdle
    /\ ArgsIdle
    /\ ExitIdle
    /\ MinDurationIdle
    /\ InstallIdle
    /\ FilterIdle
    /\ RewriteIdle
    /\ FromTokenIdle
    /\ InitProjectIdle
    /\ LockIdle
    /\ RoundTripIdle
    /\ AuthIdle
    /\ bd_pc = "ready"
    /\ bd_settings \in BuildSettings
    /\ bd_sampler = <<>>
    /\ bd_processors = <<>>

\* _initialize: SDKTracerProvider(sampler=...) and its span processors
BuildProvider ==
    /\ bd_pc = "ready"
    /\ bd_pc' = "built"
    /\ bd_sampler' = Sampler(bd_settings)
    /\ bd_processors' = BuildProcessors(bd_settings)
    /\ UNCHANGED bd_settings

BuildFrozen ==
    UNCHANGED <<mainVars, credVars, projVars, useVars, pipeVars, flushVars,
                sanVars, exportVars, argVars, exitVars, minVars, installVars,
                filterVars, rewriteVars, tokenVars, initProjVars, lockVars, roundVars, authVars>>

NextBuild == BuildProvider /\ BuildFrozen

SpecBuild == InitBuild /\ [][NextBuild]_vars

\* the tail-sampling processors of the provider
TailSamplers ==
    {i \in DOMAIN bd_processors :
        \E k \in DOMAIN bd_processors[i].layers :
            bd_processors[i].layers[k] = "TailSamplingProcessor"}

\* C27: without tail sampling and with trace_sample_rate < 1 the provider
\* has a parent-based ratio sampler of that rate and no tail sampler; with
\* tail sampling it has no sampler and every tail-sampling processor has
\* the rate trace_sample_rate when that is below 1 and 0 otherwise; with
\* trace_sample_rate >= 1 and no tail sampling there is neither
C27_RandomSamplingInOnePlace ==
    bd_pc = "built" =>
        LET rate == bd_settings.trace_sample_rate
        IN /\ (~bd_settings.tail_sampling /\ rate < FullRate) =>
                 /\ bd_sampler = [kind |-> "ParentBasedTraceIdRatio", rate |-> rate]
                 /\ TailSamplers = {}
           /\ bd_settings.tail_sampling =>
                 /\ bd_sampler.kind = "None"
                 /\ \A i \in TailSamplers :
                       bd_processors[i].sample_rate
                           = IF rate < FullRate THEN rate ELSE 0
           /\ (~bd_settings.tail_sampling /\ rate >= FullRate) =>
                 /\ bd_sampler.kind = "None"
                 /\ TailSamplers = {}

\* a provider built with tail sampling and trace_sample_rate 1.5: no
\* sampler, and two tail-sampling processors with rate 0
C27_Witness ==
    /\ bd_pc = "built"
    /\ bd_settings.tail_sampling
    /\ bd_settings.trace_sample_rate > FullRate
    /\ bd_sampler = NoSampler
    /\ Cardinality(TailSamplers) = 2
    /\ \A i \in TailSamplers : bd_processors[i].sample_rate = 0

\* the pending span processors of the provider
PendingProcessors ==
    {i \in DOMAIN bd_processors : bd_processors[i].name = "pending"}

\* the exporter classes the claim names, with their subclasses
PendingAwareClasses ==
    {"TestExporter", "TestExporterSubclass", "RemovePendingSpansExporter",
     "SimpleConsoleSpanExporter", "IndentedConsoleSpanExporter",
     "ShowParentsConsoleSpanExporter"}

\* the registered processors, in order, that are pending-aware
PendingAware ==
    SelectSeq(bd_processors,
              LAMBDA p : p.name # "pending" /\ p.exporter \in PendingAwareClasses)

\* C28: the provider built by _initialize has at most one pending span
\* processor and has none when no registered processor is pending-aware;
\* its targets are exactly the registered processors whose exporter is a
\* TestExporter, a RemovePendingSpansExporter or a SimpleConsoleSpanExporter
\* (or of a subclass), each as registered, in its wrappers; a processor with
\* another exporter or without span_exporter and the OTLP-environment
\* processor are not among them
C28_PendingTargetsArePendingAware ==
    bd_pc = "built" =>
        /\ Cardinality(PendingProcessors) <= 1
        /\ PendingAware = <<>> <=> PendingProcessors = {}
        /\ \A i \in PendingProcessors :
              /\ bd_processors[i].targets = PendingAware
              /\ \A k \in DOMAIN bd_processors[i].targets :
                    LET target == bd_processors[i].targets[k]
                    IN /\ target.layers = WrapperLayers(bd_settings.tail_sampling)
                       /\ target.name # "otlp_env"
                       /\ target.exporter \notin {"OtherExporter", NoSpanExporter,
                                                  "OTLPSpanExporter"}

\* a provider with the show-parents console, a processor of a TestExporter
\* subclass, one without span_exporter and the OTLP one: the pending span
\* processor has the first two as targets
C28_Witness ==
    /\ bd_pc = "built"
    /\ bd_settings.additional = <<"TestExporterSubclass", NoSpanExporter>>
    /\ bd_settings.console /\ bd_settings.span_style = "show-parents"
    /\ ~bd_settings.send /\ bd_settings.otlp_traces
    /\ \E i \in PendingProcessors :
          /\ Len(bd_processors[i].targets) = 2
          /\ bd_processors[i].targets[1].exporter = "TestExporterSubclass"
          /\ bd_processors[i].targets[2].exporter = "ShowParentsConsoleSpanExporter"

\* ------------------------------------------------------------------------
\* The shutdown of the previous meter provider in a reconfiguration
\* (config.py 756-761, 777)
\* ------------------------------------------------------------------------

\* the step of caller t is a shutdown of the previous meter provider that
\* exceeds its timeout
MeterShutdownTimesOut(t) ==
    /\ pc[t] = "swap_meter"
    /\ \E g \in Gens : mp[g] # "shutdown_timed_out" /\ mp'[g] = "shutdown_timed_out"

InfoResponses ==
    [outcome : InfoOutcomes, project_name : {"my-project", "other-project"},
     project_url : {"https://logfire/p/1", "https://logfire/p/2"}]

\* return None
ReturnsNone ==
    [token |-> "None", project_name |-> "None", project_url |-> "None",
     logfire_api_url |-> "None"]

\* credentials for every response but a 401
FromTokenReturnUnless401(tok, base_url, response) ==
    IF response.outcome \in {"401", "RequestException"} THEN ReturnsNone
    ELSE [token |-> tok, project_name |-> response.project_name,
          project_url |-> response.project_url, logfire_api_url |-> base_url]

\* config.py 956-982: what from_token returns
FromTokenReturn(tok, base_url, response) ==
    IF response.outcome = "RequestException" THEN ReturnsNone
    ELSE IF response.outcome = "401" THEN ReturnsNone
    ELSE IF response.outcome # "200" THEN ReturnsNone
    ELSE [token |-> tok, project_name |-> response.project_name,
          project_url |-> response.project_url, logfire_api_url |-> base_url]

InitFromToken ==
    /\ MainIdle
    /\ CredsIdle
    /\ ProjectIdle
    /\ UseIdle
    /\ PipeIdle
    /\ FlushIdle
    /\ SanitizeIdle
    /\ ExportIdle
    /\ ArgsIdle
    /\ ExitIdle
    /\ MinDurationIdle
    /\ InstallIdle
    /\ FilterIdle
    /\ RewriteIdle
    /\ BuildIdle
    /\ InitProjectIdle
    /\ LockIdle
    /\ RoundTripIdle
    /\ AuthIdle
    /\ ft_pc = "ready"
    /\ ft_token \in {"token-a", "token-b", "token-c"}
    /\ ft_base_url \in {"https://logfire-api", "http://localhost"}
    /\ ft_response \in InfoResponses
    /\ ft_result = <<>>
    /\ ft_warnings = <<>>

\* LogfireCredentials.from_token(token, session, base_url)
FromTokenCall ==
    /\ ft_pc = "ready"
    /\ ft_pc' = "returned"
    /\ ft_result' = FromTokenReturn(ft_token, ft_base_url, ft_response)
    /\ ft_warnings' = LET w == FromTokenWarning(ft_response.outcome)
                      IN  IF w = {} THEN ft_warnings
                          ELSE Append(ft_warnings, CHOOSE m \in w : TRUE)
    /\ UNCHANGED <<ft_token, ft_base_url, ft_response>>

FromTokenFrozen ==
    UNCHANGED <<mainVars, credVars, projVars, useVars, pipeVars, flushVars,
                sanVars, exportVars, argVars, exitVars, minVars, installVars,
                filterVars, rewriteVars, buildVars, initProjVars, lockVars, roundVars, authVars>>

NextFromToken == FromTokenCall /\ FromTokenFrozen

SpecFromToken == InitFromToken /\ [][NextFromToken]_vars

NoCredentialsDict == [is_none |-> TRUE, keys |-> {}]

\* the fields of LogfireCredentials that a response has to hold
ProjectCredentialKeys == {"token", "project_name", "project_url"}

\* what response.json() of a write-token or project request may be: the
\* project's credentials, the same without the token, with a key the
\* dataclass does not have, or an empty object
ResponseDicts ==
    {[is_none |-> FALSE, keys |-> k] :
        k \in {ProjectCredentialKeys, ProjectCredentialKeys \ {"token"},
               ProjectCredentialKeys \cup {"created_at"}, {}}}

\* bool(credentials)
CredentialsTruthy(credentials) == ~credentials.is_none /\ credentials.keys # {}

\* cls(**credentials, logfire_api_url=...) taken as it comes
ConstructCredentialsUnchecked(credentials, logfire_api_url) ==
    [tag |-> "credentials", keys |-> credentials.keys \cup {"logfire_api_url"},
     logfire_api_url |-> logfire_api_url]

\* cls(**credentials, logfire_api_url=...): TypeError for a missing or an
\* unexpected keyword, which is raised as LogfireConfigError
ConstructCredentials(credentials, logfire_api_url) ==
    IF credentials.keys = ProjectCredentialKeys
    THEN [tag |-> "credentials", keys |-> credentials.keys \cup {"logfire_api_url"},
          logfire_api_url |-> logfire_api_url]
    ELSE [tag |-> "LogfireConfigError", keys |-> {}, logfire_api_url |-> "None"]

\* initialize_project raises or exits
ProjectEnds(exc) ==
    /\ ip_pc' = "done"
    /\ ip_result' = [tag |-> exc, keys |-> {}, logfire_api_url |-> "None"]

NothingLogged ==
    [projects |-> "not-called", asked_reuse |-> FALSE, reuse |-> "not-asked",
     reuse_gave |-> "not-called", created_new |-> FALSE, forced_prompt |-> FALSE]

InitInitProject ==
    /\ MainIdle
    /\ CredsIdle
    /\ ProjectIdle
    /\ UseIdle
    /\ PipeIdle
    /\ FlushIdle
    /\ SanitizeIdle
    /\ ExportIdle
    /\ ArgsIdle
    /\ ExitIdle
    /\ MinDurationIdle
    /\ InstallIdle
    /\ FilterIdle
    /\ RewriteIdle
    /\ BuildIdle
    /\ FromTokenIdle
    /\ LockIdle
    /\ RoundTripIdle
    /\ AuthIdle
    /\ ip_pc = "projects"
    /\ ip_args \in [logfire_api_url : {"https://logfire-api", "http://localhost"},
                    project_name : {"None", "my-project"}]
    /\ ip_log = NothingLogged
    /\ ip_credentials = NoCredentialsDict
    /\ ip_result = <<>>

\* projects = cls.get_user_projects(...): LogfireConfigError, or the list;
\* `if projects:` asks only with a project in the list
GetUserProjects(outcome) ==
    /\ ip_pc = "projects"
    /\ ip_log' = [ip_log EXCEPT !.projects = outcome]
    /\ IF outcome = "LogfireConfigError"
       THEN ProjectEnds("LogfireConfigError")
       ELSE /\ ip_pc' = IF outcome = "some" THEN "confirm" ELSE "create"
            /\ UNCHANGED ip_result
    /\ UNCHANGED <<ip_args, ip_credentials>>

\* Confirm.ask('Do you want to use one of your existing projects? ')
ConfirmReuse(answer) ==
    /\ ip_pc = "confirm"
    /\ ip_log' = [ip_log EXCEPT !.asked_reuse = TRUE,
                                !.reuse = IF answer THEN "yes" ELSE "no"]
    /\ ip_pc' = IF answer THEN "use" ELSE "create"
    /\ UNCHANGED <<ip_args, ip_credentials, ip_result>>

\* credentials = cls.use_existing_project(...): a dict, None, or
\* LogfireConfigError; `if not credentials:` goes on to create_new_project
UseExistingProject(raises, credentials) ==
    /\ ip_pc = "use"
    /\ ip_log' = [ip_log EXCEPT !.reuse_gave =
                     IF raises THEN "LogfireConfigError"
                     ELSE IF CredentialsTruthy(credentials) THEN "project"
                     ELSE "nothing"]
    /\ IF raises
       THEN /\ ProjectEnds("LogfireConfigError")
            /\ UNCHANGED ip_credentials
       ELSE /\ ip_credentials' = credentials
            /\ ip_pc' = IF CredentialsTruthy(credentials) THEN "construct" ELSE "create"
            /\ UNCHANGED ip_result
    /\ UNCHANGED ip_args

\* credentials = cls.create_new_project(..., force_project_name_prompt=True):
\* a dict, LogfireConfigError, or sys.exit(1) when the user refuses the
\* organization
CreateNewProject(outcome, credentials) ==
    /\ ip_pc = "create"
    /\ ip_log' = [ip_log EXCEPT !.created_new = TRUE, !.forced_prompt = TRUE]
    /\ IF outcome = "returns"
       THEN /\ ip_credentials' = credentials
            /\ ip_pc' = "construct"
            /\ UNCHANGED ip_result
       ELSE /\ ProjectEnds(outcome)
            /\ UNCHANGED ip_credentials
    /\ UNCHANGED ip_args

\* result = cls(**credentials, logfire_api_url=logfire_api_url);
\* Prompt.ask('Project initialized successfully...'); return result
ReturnCredentials ==
    /\ ip_pc = "construct"
    /\ ip_pc' = "done"
    /\ ip_result' = ConstructCredentials(ip_credentials, ip_args.logfire_api_url)
    /\ UNCHANGED <<ip_args, ip_log, ip_credentials>>

InitProjectFrozen ==
    UNCHANGED <<mainVars, credVars, projVars, useVars, pipeVars, flushVars,
                sanVars, exportVars, argVars, exitVars, minVars, installVars,
                filterVars, rewriteVars, buildVars, tokenVars, lockVars, roundVars, authVars>>

NextInitProject ==
    \/ \E outcome \in {"LogfireConfigError", "empty", "some"} :
          GetUserProjects(outcome) /\ InitProjectFrozen
    \/ \E answer \in BOOLEAN : ConfirmReuse(answer) /\ InitProjectFrozen
    \/ \E raises \in BOOLEAN, credentials \in ResponseDicts \cup {NoCredentialsDict} :
          UseExistingProject(raises, credentials) /\ InitProjectFrozen
    \/ \E outcome \in {"returns", "LogfireConfigError", "SystemExit"},
          credentials \in ResponseDicts :
          CreateNewProject(outcome, credentials) /\ InitProjectFrozen
    \/ ReturnCredentials /\ InitProjectFrozen

SpecInitProject == InitInitProject /\ [][NextInitProject]_vars

\* C31: initialize_project ends by returning credentials, by raising
\* LogfireConfigError or by exiting the process; it asks about reuse only
\* when the user has a project; it calls create_new_project, with the name
\* prompt forced, exactly when it got past get_user_projects and the user
\* has no project, declined reuse or the reuse step gave no project; the
\* credentials it returns hold a token
C31_InitializeProjectOutcomes ==
    /\ ip_log.asked_reuse => ip_log.projects = "some"
    /\ ip_log.reuse_gave # "not-called" => ip_log.reuse = "yes"
    /\ ip_log.created_new => ip_log.forced_prompt
    /\ ip_pc \in {"construct", "done"} =>
          (ip_log.created_new <=>
              \/ ip_log.projects = "empty"
              \/ ip_log.reuse = "no"
              \/ ip_log.reuse_gave = "nothing")
    /\ ip_pc = "done" =>
          /\ ip_result.tag \in {"credentials", "LogfireConfigError", "SystemExit"}
          /\ ip_result.tag = "credentials" =>
                /\ "token" \in ip_result.keys
                /\ ip_result.logfire_api_url = ip_args.logfire_api_url

\* a reuse step that gave nothing was followed by a new project whose
\* credentials were returned
C31_Witness ==
    /\ ip_pc = "done"
    /\ ip_log.reuse_gave = "nothing"
    /\ ip_log.created_new
    /\ ip_result.tag = "credentials"

\* ------------------------------------------------------------------------
\* C32: a configure() that raises leaves the config not initialized
\* ------------------------------------------------------------------------

\* warn_if_not_initialized: whether get_tracer_provider/get_meter_provider
\* of config c issue LogfireNotConfiguredWarning
warn_if_not_initialized(c, ignore_no_config) ==
    ~initialized[c] /\ ~ignore_no_config

\* the step is caller t's _load_configuration raising
LoadFails(t) ==
    /\ pc[t] = "idle"
    /\ calls' = calls + 1
    /\ lastError'[t] # None

\* the step is caller t leaving _initialize by an exception
InitializationFails(t) ==
    /\ pc[t] # "idle"
    /\ pc'[t] = "idle"
    /\ lastError'[t] # None

\* the step is caller t returning from _initialize
InitializationReturns(t) ==
    /\ pc[t] # "idle"
    /\ pc'[t] = "idle"
    /\ lastError'[t] = None

\* C32: while a call is inside _initialize its config is not initialized;
\* a config whose settings a failed _load_configuration assigned, and the
\* config of an initialization that raised, are not initialized afterwards,
\* so both getters warn unless ignore_no_config is set; the flag becomes
\* true only in the last step of an initialization that returns, and is
\* true after every one that returns
C32_FailedConfigureNotInitialized ==
    [][\A t \in Callers, c \in Configs :
          /\ (pc'[t] # "idle" /\ cfgOf'[t] = c) => ~initialized'[c]
          /\ (LoadFails(t) /\ (token'[c] # token[c]
                                \/ send_to_logfire'[c] # send_to_logfire[c]))
                => \A ignore_no_config \in BOOLEAN :
                      warn_if_not_initialized(c, ignore_no_config)' = ~ignore_no_config
          /\ (InitializationFails(t) /\ cfgOf[t] = c)
                => \A ignore_no_config \in BOOLEAN :
                      warn_if_not_initialized(c, ignore_no_config)' = ~ignore_no_config
          /\ (initialized'[c] /\ ~initialized[c])
                => \E u \in Callers :
                      InitializationReturns(u) /\ cfgOf[u] = c /\ pc[u] = "finish"
          /\ (InitializationReturns(t) /\ cfgOf[t] = c) => initialized'[c]
      ]_vars

\* a configure() of a config has succeeded, and a later one has raised and
\* left it not initialized
C32_Witness ==
    \E t \in Callers, c \in Configs :
        /\ pc[t] = "idle"
        /\ lastError[t] # None
        /\ successes[c] >= 1
        /\ ~initialized[c]

\* ------------------------------------------------------------------------
\* C33: the check_logfire_token thread and a later configure()
\* ------------------------------------------------------------------------

\* C33: a check_logfire_token thread never finds self.token to be None
\* (its assertion holds) and sends the token of the configure() that
\* started it
C33_ThreadValidatesItsOwnToken ==
    \A g \in Gens :
        /\ thread[g].state # "failed"
        /\ thread[g].state = "requesting" => thread[g].token = thread[g].startedFor

\* the thread of a configure() with a token ran after a later configure()
\* of the same config had set self.token to None: its assertion failed
C33_FailingInput ==
    \E g \in Gens, c \in Configs :
        /\ thread[g].state = "failed"
        /\ info[g].token # None
        /\ token[c] = None
        /\ calls = 2

\* ------------------------------------------------------------------------
\* LogfireConfig.configure / initialize called from several threads
\* (config.py 521, 523-575)
\* ------------------------------------------------------------------------

\* configure()/initialize() calls made by the threads together
MaxLockCalls == 3

LockThreads == {"t1", "t2"}

\* the settings a configure() call passes
LockSettings == {"A", "B"}

NoCall == [kind |-> "none", settings |-> "none", raises |-> FALSE]

\* mutant: no lock at all
AcquireUnlocked(t) == TRUE

\* RLock.acquire(): free, or owned by the calling thread
Acquire(t) == lk_owner \in {NoOwner, t}

\* entering `with self._lock:`
EnterLock(t) ==
    /\ Acquire(t)
    /\ lk_owner' = t
    /\ lk_count' = lk_count + 1
    /\ lk_held' = [lk_held EXCEPT ![t] = @ + 1]

\* leaving n nested `with self._lock:` blocks, by return or by exception
LeaveLock(t, n) ==
    /\ lk_count' = IF lk_count > n THEN lk_count - n ELSE 0
    /\ lk_owner' = IF lk_count > n THEN lk_owner ELSE NoOwner
    /\ lk_held' = [lk_held EXCEPT ![t] = 0]

\* a fresh LogfireConfig: default settings, no-op providers
InitLock ==
    /\ MainIdle
    /\ CredsIdle
    /\ ProjectIdle
    /\ UseIdle
    /\ PipeIdle
    /\ FlushIdle
    /\ SanitizeIdle
    /\ ExportIdle
    /\ ArgsIdle
    /\ ExitIdle
    /\ MinDurationIdle
    /\ InstallIdle
    /\ FilterIdle
    /\ RewriteIdle
    /\ BuildIdle
    /\ FromTokenIdle
    /\ InitProjectIdle
    /\ RoundTripIdle
    /\ AuthIdle
    /\ lk_pc = [t \in LockThreads |-> "idle"]
    /\ lk_call = [t \in LockThreads |-> NoCall]
    /\ lk_held = [t \in LockThreads |-> 0]
    /\ lk_owner = NoOwner
    /\ lk_count = 0
    /\ lk_config = [settings |-> "default", initialized |-> FALSE,
                    provider |-> "noop", processors |-> "noop"]
    /\ lk_calls = 0

\* a thread calls configure(settings) or initialize()
LockCall(t, kind, settings, raises) ==
    /\ lk_pc[t] = "idle"
    /\ lk_calls < MaxLockCalls
    /\ lk_calls' = lk_calls + 1
    /\ lk_call' = [lk_call EXCEPT ![t] =
                      [kind |-> kind, settings |-> settings, raises |-> raises]]
    /\ lk_pc' = [lk_pc EXCEPT ![t] = "enter"]
    /\ UNCHANGED <<lk_held, lk_owner, lk_count, lk_config>>

\* `with self._lock:` of configure() or of initialize()
LockEnter(t) ==
    /\ lk_pc[t] = "enter"
    /\ EnterLock(t)
    /\ lk_pc' = [lk_pc EXCEPT ![t] =
                    IF lk_call[t].kind = "configure" THEN "load" ELSE "initialize"]
    /\ UNCHANGED <<lk_call, lk_config, lk_calls>>

\* self._initialized = False; self._load_configuration(...), which assigns
\* the settings and may raise
LockLoad(t) ==
    /\ lk_pc[t] = "load"
    /\ lk_config' = [lk_config EXCEPT !.initialized = FALSE,
                                      !.settings = lk_call[t].settings]
    /\ IF lk_call[t].raises
       THEN /\ LeaveLock(t, 1)
            /\ lk_pc' = [lk_pc EXCEPT ![t] = "idle"]
            /\ lk_call' = [lk_call EXCEPT ![t] = NoCall]
       ELSE /\ lk_pc' = [lk_pc EXCEPT ![t] = "nested"]
            /\ UNCHANGED <<lk_call, lk_held, lk_owner, lk_count>>
    /\ UNCHANGED lk_calls

\* self.initialize() inside configure(): `with self._lock:` again
LockNested(t) ==
    /\ lk_pc[t] = "nested"
    /\ EnterLock(t)
    /\ lk_pc' = [lk_pc EXCEPT ![t] = "initialize"]
    /\ UNCHANGED <<lk_call, lk_config, lk_calls>>

\* _initialize: return at once when initialized; else build the tracer
\* provider from the settings and put it in the proxy
LockBuildProvider(t) ==
    /\ lk_pc[t] = "initialize"
    /\ IF lk_config.initialized
       THEN /\ LeaveLock(t, lk_held[t])
            /\ lk_pc' = [lk_pc EXCEPT ![t] = "idle"]
            /\ lk_call' = [lk_call EXCEPT ![t] = NoCall]
            /\ UNCHANGED lk_config
       ELSE /\ lk_config' = [lk_config EXCEPT !.provider = lk_config.settings]
            /\ lk_pc' = [lk_pc EXCEPT ![t] = "processors"]
            /\ UNCHANGED <<lk_call, lk_held, lk_owner, lk_count>>
    /\ UNCHANGED lk_calls

\* the span processors of the settings are added to the provider
LockAddProcessors(t) ==
    /\ lk_pc[t] = "processors"
    /\ lk_config' = [lk_config EXCEPT !.processors = lk_config.settings]
    /\ lk_pc' = [lk_pc EXCEPT ![t] = "finish"]
    /\ UNCHANGED <<lk_call, lk_held, lk_owner, lk_count, lk_calls>>

\* self._initialized = True; return, leaving every `with self._lock:`
LockFinish(t) ==
    /\ lk_pc[t] = "finish"
    /\ lk_config' = [lk_config EXCEPT !.initialized = TRUE]
    /\ LeaveLock(t, lk_held[t])
    /\ lk_pc' = [lk_pc EXCEPT ![t] = "idle"]
    /\ lk_call' = [lk_call EXCEPT ![t] = NoCall]
    /\ UNCHANGED lk_calls

LockFrozen ==
    UNCHANGED <<mainVars, credVars, projVars, useVars, pipeVars, flushVars,
                sanVars, exportVars, argVars, exitVars, minVars, installVars,
                filterVars, rewriteVars, buildVars, tokenVars, initProjVars, roundVars, authVars>>

NextLock ==
    \/ \E t \in LockThreads, settings \in LockSettings, raises \in BOOLEAN :
          LockCall(t, "configure", settings, raises) /\ LockFrozen
    \/ \E t \in LockThreads : LockCall(t, "initialize", "none", FALSE) /\ LockFrozen
    \/ \E t \in LockThreads : LockEnter(t) /\ LockFrozen
    \/ \E t \in LockThreads : LockLoad(t) /\ LockFrozen
    \/ \E t \in LockThreads : LockNested(t) /\ LockFrozen
    \/ \E t \in LockThreads : LockBuildProvider(t) /\ LockFrozen
    \/ \E t \in LockThreads : LockAddProcessors(t) /\ LockFrozen
    \/ \E t \in LockThreads : LockFinish(t) /\ LockFrozen

SpecLock == InitLock /\ [][NextLock]_vars

\* the thread is between entering and leaving `with self._lock:`
InsideLock(t) == lk_pc[t] \in {"load", "nested", "initialize", "processors", "finish"}

\* C34: at most one thread is inside configure()/initialize() at a time and
\* it owns the lock; from the loading of a call's settings to the end of
\* its initialization the config holds that call's settings; the installed
\* provider and span processors come from the settings of one call once the
\* initialization is through; and the nested initialize() of configure() can
\* always take the lock
C34_CallsAreSerialized ==
    /\ \A t, u \in LockThreads : InsideLock(t) /\ InsideLock(u) => t = u
    /\ \A t \in LockThreads :
          /\ InsideLock(t) => lk_owner = t /\ lk_count = lk_held[t]
          /\ InsideLock(t) /\ lk_pc[t] # "load" /\ lk_call[t].kind = "configure"
                => lk_config.settings = lk_call[t].settings
          /\ lk_pc[t] = "nested" => Acquire(t)
          /\ lk_pc[t] = "finish" =>
                /\ lk_config.provider = lk_config.settings
                /\ lk_config.processors = lk_config.settings
    /\ lk_config.initialized => lk_config.provider = lk_config.processors

\* one thread is inside the nested initialize() of its configure(), holding
\* the lock twice, while the other has called configure() with other
\* settings and waits for the lock
C34_Witness ==
    \E t, u \in LockThreads :
        /\ lk_pc[t] = "processors"
        /\ lk_count = 2
        /\ lk_pc[u] = "enter"
        /\ lk_call[u].kind = "configure"
        /\ lk_call[u].settings # lk_call[t].settings

\* ------------------------------------------------------------------------
\* C35: the target of the write-token request of use_existing_project
\* ------------------------------------------------------------------------

\* C35: a write-token request of use_existing_project goes to the
\* organization and project name of one entry of the list `projects`,
\* whatever organization and project_name were asked for and whatever the
\* user answered; before the request nothing is targeted
C35_RequestTargetIsListedProject ==
    /\ up_pc = "done" /\ up_result \in {"token", "LogfireConfigError"}
          /\ up_request # NoProject
       => \E i \in 1..Len(projects) : projects[i] = up_request
    /\ up_pc = "request" =>
          \E i \in 1..Len(projects) :
              /\ projects[i].organization_name = organization
              /\ projects[i].project_name = up_project_name
    /\ up_pc \notin {"done"} => up_request = NoProject

\* the organization asked for is that of one project and the name that of
\* another, no project has both, the user widened the search, and the
\* token was requested
C35_Witness ==
    /\ up_result = "token"
    /\ up_args.organization_name # None
    /\ up_args.project_name # None
    /\ \E i, j \in 1..Len(projects) :
          /\ projects[i].organization_name = up_args.organization_name
          /\ projects[j].project_name = up_args.project_name
    /\ "choose from all" \in up_asked
    /\ \E i \in 1..Len(projects) : projects[i] = up_request

\* ------------------------------------------------------------------------
\* write_creds_file, then load_creds_file of the same directory
\* (config.py 1317-1322, 915-943)
\* ------------------------------------------------------------------------

\* credentials with every field set, and any file in the directory before
InitRoundTrip ==
    /\ MainIdle
    /\ CredsIdle
    /\ ProjectIdle
    /\ UseIdle
    /\ PipeIdle
    /\ FlushIdle
    /\ SanitizeIdle
    /\ ExportIdle
    /\ ArgsIdle
    /\ ExitIdle
    /\ MinDurationIdle
    /\ InstallIdle
    /\ FilterIdle
    /\ RewriteIdle
    /\ BuildIdle
    /\ FromTokenIdle
    /\ InitProjectIdle
    /\ LockIdle
    /\ AuthIdle
    /\ rt_creds \in [CredsFields -> {"v1", "v2"}]
    /\ rt_file \in {NoFile, OtherFile("badjson"),
                    ObjectFile([EmptyObject EXCEPT !["dashboard_url"] = "v2",
                                                   !["token"] = "v1"])}
    /\ rt_written = FALSE
    /\ rt_loaded = NotCalled

\* self.write_creds_file(creds_dir): the file is replaced
WriteCredsFile ==
    /\ ~rt_written
    /\ rt_file' = write_creds_file(rt_creds)
    /\ rt_written' = TRUE
    /\ UNCHANGED <<rt_creds, rt_loaded>>

\* LogfireCredentials.load_creds_file(creds_dir) of the same directory
LoadWrittenFile ==
    /\ rt_loaded = NotCalled
    /\ rt_loaded' = load_creds_file(rt_file)
    /\ UNCHANGED <<rt_creds, rt_file, rt_written>>

RoundTripFrozen ==
    UNCHANGED <<mainVars, credVars, projVars, useVars, pipeVars, flushVars,
                sanVars, exportVars, argVars, exitVars, minVars, installVars,
                filterVars, rewriteVars, buildVars, tokenVars, initProjVars,
                lockVars, authVars>>

NextRoundTrip ==
    \/ WriteCredsFile /\ RoundTripFrozen
    \/ LoadWrittenFile /\ RoundTripFrozen

SpecRoundTrip == InitRoundTrip /\ [][NextRoundTrip]_vars

\* C36: the file write_creds_file leaves holds the four fields of the
\* credentials and no dashboard_url, and load_creds_file of it returns
\* credentials equal to the ones written, whatever was in the file before
C36_WriteThenLoadGivesSameCredentials ==
    rt_written =>
        /\ rt_file.kind = "object"
        /\ rt_file.obj["dashboard_url"] = Absent
        /\ \A k \in CredsFields : rt_file.obj[k] = rt_creds[k]
        /\ load_creds_file(rt_file) = Loaded(rt_creds)
        /\ rt_loaded # NotCalled /\ rt_loaded.tag = "creds"
              => rt_loaded.creds = rt_creds

\* credentials with different field values were written and loaded back
C36_Witness ==
    /\ rt_written
    /\ rt_loaded = Loaded(rt_creds)
    /\ rt_creds["project_url"] # rt_creds["token"]

\* ------------------------------------------------------------------------
\* C37: sanitize_project_name applied to its own result
\* ------------------------------------------------------------------------

AuthMethods ==
    {"get_current_user", "get_user_projects", "use_existing_project",
     "create_new_project"}

\* ~/.logfire/default.toml: absent, without a valid token for the URL, or
\* with one (is_logged_in(data, logfire_api_url) is the answer of auth.py)
AuthFiles ==
    {[is_file |-> FALSE, is_logged_in |-> FALSE, token |-> None],
     [is_file |-> TRUE, is_logged_in |-> FALSE, token |-> None],
     [is_file |-> TRUE, is_logged_in |-> TRUE, token |-> "user-token-1"],
     [is_file |-> TRUE, is_logged_in |-> TRUE, token |-> "user-token-2"]}

\* mutant: the entry of the file is returned without asking is_logged_in
get_user_token_of_any_file(file) ==
    IF file.is_file THEN file.token ELSE "LogfireConfigError"

\* _get_user_token: the token of the file for the URL, or LogfireConfigError
\* ('You are not authenticated...')
get_user_token(file) ==
    IF file.is_file /\ file.is_logged_in THEN file.token ELSE "LogfireConfigError"

\* the first request of each method
FirstRequest(method) ==
    CASE method = "get_current_user"     -> "GET /v1/account/me"
      [] method = "get_user_projects"    -> "GET /v1/projects/"
      [] method = "use_existing_project" -> "POST /v1/organizations/{org}/projects/{name}/write-tokens/"
      [] method = "create_new_project"   -> "GET /v1/organizations/"

\* session.get/post(url, headers={..., 'Authorization': user_token})
Send(path) ==
    au_requests' = Append(au_requests,
                          [url |-> au_call.logfire_api_url, path |-> path,
                           authorization |-> au_token])

AuthEnds(result) ==
    /\ au_pc' = "done"
    /\ au_result' = result

InitAuth ==
    /\ MainIdle
    /\ CredsIdle
    /\ ProjectIdle
    /\ UseIdle
    /\ PipeIdle
    /\ FlushIdle
    /\ SanitizeIdle
    /\ ExportIdle
    /\ ArgsIdle
    /\ ExitIdle
    /\ MinDurationIdle
    /\ InstallIdle
    /\ FilterIdle
    /\ RewriteIdle
    /\ BuildIdle
    /\ FromTokenIdle
    /\ InitProjectIdle
    /\ LockIdle
    /\ RoundTripIdle
    /\ au_pc = "user_token"
    /\ au_call \in [method : AuthMethods,
                    logfire_api_url : {"https://logfire-api", "http://localhost"},
                    file : AuthFiles]
    /\ au_token = None
    /\ au_requests = <<>>
    /\ au_result = "not-called"

\* user_token = cls._get_user_token(logfire_api_url): the first statement of
\* each method; get_current_user catches LogfireConfigError and returns None
AuthGetUserToken ==
    /\ au_pc = "user_token"
    /\ LET user_token == get_user_token(au_call.file)
       IN  IF user_token = "LogfireConfigError"
           THEN /\ AuthEnds(IF au_call.method = "get_current_user"
                            THEN "None" ELSE "LogfireConfigError")
                /\ UNCHANGED au_token
           ELSE /\ au_token' = user_token
                /\ au_pc' = "request"
                /\ UNCHANGED au_result
    /\ UNCHANGED <<au_call, au_requests>>

\* use_existing_project returns None before its request: no projects, or
\* the user does not want to choose from all projects
AuthReturnsWithoutRequest ==
    /\ au_pc = "request"
    /\ au_call.method = "use_existing_project"
    /\ AuthEnds("None")
    /\ UNCHANGED <<au_call, au_token, au_requests>>

\* the first request: a RequestException becomes LogfireConfigError, a
\* response is returned (create_new_project goes on to its POST)
AuthRequest(ok) ==
    /\ au_pc = "request"
    /\ Send(FirstRequest(au_call.method))
    /\ IF ~ok THEN AuthEnds("LogfireConfigError")
       ELSE IF au_call.method = "create_new_project"
       THEN au_pc' = "organization" /\ UNCHANGED au_result
       ELSE AuthEnds("response")
    /\ UNCHANGED <<au_call, au_token>>

\* create_new_project: the organization is the argument, the only one
\* (sys.exit(1) when the user refuses it) or one chosen at a prompt, whose
\* default comes from GET /v1/account/me
AuthSelectOrganization(outcome) ==
    /\ au_pc = "organization"
    /\ IF outcome \in {"account", "account-fails"}
       THEN Send("GET /v1/account/me")
       ELSE UNCHANGED au_requests
    /\ CASE outcome = "declined"      -> AuthEnds("SystemExit")
         [] outcome = "account-fails" -> AuthEnds("LogfireConfigError")
         [] OTHER                     -> au_pc' = "post" /\ UNCHANGED au_result
    /\ UNCHANGED <<au_call, au_token>>

\* create_new_project: POST /v1/projects/{organization}
AuthPostProject(ok) ==
    /\ au_pc = "post"
    /\ Send("POST /v1/projects/{org}")
    /\ AuthEnds(IF ok THEN "response" ELSE "LogfireConfigError")
    /\ UNCHANGED <<au_call, au_token>>

AuthFrozen ==
    UNCHANGED <<mainVars, credVars, projVars, useVars, pipeVars, flushVars,
                sanVars, exportVars, argVars, exitVars, minVars, installVars,
                filterVars, rewriteVars, buildVars, tokenVars, initProjVars,
                lockVars, roundVars>>

NextAuth ==
    \/ AuthGetUserToken /\ AuthFrozen
    \/ AuthReturnsWithoutRequest /\ AuthFrozen
    \/ \E ok \in BOOLEAN : AuthRequest(ok) /\ AuthFrozen
    \/ \E outcome \in {"selected", "account", "account-fails", "declined"} :
          AuthSelectOrganization(outcome) /\ AuthFrozen
    \/ \E ok \in BOOLEAN : AuthPostProject(ok) /\ AuthFrozen

SpecAuth == InitAuth /\ [][NextAuth]_vars

\* the auth file holds a user token for the URL
LoggedIn == au_call.file.is_file /\ au_call.file.is_logged_in

\* C38: every request that is sent carries the user token the auth file
\* holds for the URL; when the user is not logged in no request is sent,
\* get_user_projects, use_existing_project and create_new_project end with
\* LogfireConfigError and get_current_user returns None
C38_NoRequestWithoutUserToken ==
    /\ \A i \in 1..Len(au_requests) :
          /\ LoggedIn
          /\ au_requests[i].authorization = au_call.file.token
          /\ au_requests[i].authorization # None
          /\ au_requests[i].url = au_call.logfire_api_url
    /\ ~LoggedIn /\ au_pc # "user_token" =>
          /\ au_pc = "done"
          /\ au_requests = <<>>
          /\ au_result = IF au_call.method = "get_current_user"
                         THEN "None" ELSE "LogfireConfigError"

\* get_current_user has returned None with a file that has no token for the
\* URL, without a request
C38_Witness ==
    /\ au_pc = "done"
    /\ au_call.method = "get_current_user"
    /\ au_call.file.is_file /\ ~au_call.file.is_logged_in
    /\ au_result = "None"
    /\ au_requests = <<>>

====
